---- MODULE Spec2Model ----
(***************************************************************************)
(* A model of the G3D script parser (parseG3D and the functions it calls)  *)
(* and of the evaluation of the commands it returns.                       *)
(*                                                                         *)
(* Text is modelled character by character: a string is a sequence of     *)
(* one-character strings.  A regular expression is the sequence of its     *)
(* items, matched by backtracking as the engine of the host matches it.   *)
(***************************************************************************)
EXTENDS Integers, Sequences, FiniteSets, TLC

\* f[x] of a function f on {x}.  With([v \in {x} |-> e]) is e with x for v:
\* const v = x, and then e
With(f) == f[CHOOSE x \in DOMAIN f : TRUE]

\* ------------------------------------------------------------------ text

\* the function f on 1..n written as the tuple it is
Tuple(f) == SubSeq(f, 1, Len(f))

Chars(s) == Tuple([n \in 1..Len(s) |-> SubSeq(s, n, n)])

UpperSeq == Chars("ABCDEFGHIJKLMNOPQRSTUVWXYZ")
LowerSeq == Chars("abcdefghijklmnopqrstuvwxyz")
DigitSeq == Chars("0123456789")

UpperSet == {UpperSeq[n] : n \in 1..26}
LowerSet == {LowerSeq[n] : n \in 1..26}
DigitSet == {DigitSeq[n] : n \in 1..10}
LetterSet == UpperSet \cup LowerSet
SpaceSet == {" ", "\t"}
\* \w of a regular expression, and [A-Z0-9] under the i flag
WordSet == LetterSet \cup DigitSet \cup {"_"}
AlnumSet == LetterSet \cup DigitSet

UpMap == [c \in LowerSet |-> UpperSeq[CHOOSE n \in 1..26 : LowerSeq[n] = c]]
LowMap == [c \in UpperSet |-> LowerSeq[CHOOSE n \in 1..26 : UpperSeq[n] = c]]
DigitVal == [c \in DigitSet |-> (CHOOSE n \in 1..10 : DigitSeq[n] = c) - 1]

UpChar(c) == IF c \in LowerSet THEN UpMap[c] ELSE c
LowChar(c) == IF c \in UpperSet THEN LowMap[c] ELSE c

\* String.prototype.toUpperCase / toLowerCase
toUpperCase(s) == Tuple([n \in 1..Len(s) |-> UpChar(s[n])])
toLowerCase(s) == Tuple([n \in 1..Len(s) |-> LowChar(s[n])])

\* s.substring(p - 1): the text from position p (1-based) to the end
From(s, p) == IF p < 1 \/ p > Len(s) THEN <<>> ELSE SubSeq(s, p, Len(s))

\* whether pat occurs in s at position p (p is 1-based); with ci, letters
\* are compared without case (a literal under the i flag)
At(s, p, pat, ci) ==
    /\ p >= 1
    /\ p + Len(pat) - 1 <= Len(s)
    /\ \A k \in 1..Len(pat) :
          IF ci THEN UpChar(s[p + k - 1]) = UpChar(pat[k]) ELSE s[p + k - 1] = pat[k]

\* the first position of pat in s, 0 when there is none (indexOf + 1)
IndexOf(s, pat) ==
    IF \E p \in 1..(Len(s) + 1) : At(s, p, pat, FALSE)
    THEN CHOOSE p \in 1..(Len(s) + 1) :
            At(s, p, pat, FALSE) /\ \A q \in 1..(p - 1) : ~At(s, q, pat, FALSE)
    ELSE 0

\* String.prototype.includes and String.prototype.startsWith
includes(s, pat) == IndexOf(s, pat) # 0
startsWith(s, pat) == At(s, 1, pat, FALSE)

\* the position after the run of characters of class cls that starts at p
RunEnd(s, p, cls) ==
    IF p > Len(s) THEN p
    ELSE CHOOSE q \in p..(Len(s) + 1) :
            /\ \A r \in p..(q - 1) : s[r] \in cls
            /\ q = Len(s) + 1 \/ s[q] \notin cls

\* String.prototype.trim
trim(s) ==
    IF \A k \in 1..Len(s) : s[k] \in SpaceSet THEN <<>>
    ELSE SubSeq(s, RunEnd(s, 1, SpaceSet),
                CHOOSE q \in 1..Len(s) :
                    /\ s[q] \notin SpaceSet
                    /\ \A r \in (q + 1)..Len(s) : s[r] \in SpaceSet)

\* the k-th smallest number of a set of numbers
Nth(S, k) == CHOOSE x \in S : Cardinality({y \in S : y < x}) = k - 1

\* the pieces of s between the positions seps
Pieces(s, seps) ==
    [k \in 1..(Cardinality(seps) + 1) |->
        SubSeq(s, IF k = 1 THEN 1 ELSE Nth(seps, k - 1) + 1,
                  IF k = Cardinality(seps) + 1 THEN Len(s) ELSE Nth(seps, k) - 1)]

\* s.split(sep) for a one-character separator: the pieces between the
\* separators (at least one piece)
Split(s, sep) == Pieces(s, {p \in 1..Len(s) : s[p] = sep})

\* what s.replace(/pat/g, rep) makes of the character at p, for a pattern
\* that cannot overlap itself (no pattern of this program can): rep where an
\* occurrence begins, nothing inside one, the character elsewhere
Replaced(s, pat, rep, ci, p) ==
    IF At(s, p, pat, ci) THEN rep
    ELSE IF \E q \in (p - Len(pat) + 1)..(p - 1) : At(s, q, pat, ci) THEN <<>>
    ELSE <<s[p]>>

\* s.replace(/pat/g, rep) of the characters lo..hi of s, and with ci the i
\* flag as well
RECURSIVE ReplaceIn(_, _, _, _, _, _)
ReplaceIn(s, pat, rep, ci, lo, hi) ==
    IF lo > hi THEN <<>>
    ELSE IF lo = hi THEN Replaced(s, pat, rep, ci, lo)
    ELSE ReplaceIn(s, pat, rep, ci, lo, (lo + hi) \div 2)
         \o ReplaceIn(s, pat, rep, ci, (lo + hi) \div 2 + 1, hi)

ReplaceAll(s, pat, rep, ci) == ReplaceIn(s, pat, rep, ci, 1, Len(s))

\* --------------------------------------------------------------- numbers
\* A JavaScript number is a fraction n/d in lowest terms with d > 0; the
\* non-finite numbers have d = 0: 1/0 is Infinity, -1/0 is -Infinity and 0/0
\* is NaN.

Abs(x) == IF x < 0 THEN -x ELSE x

RECURSIVE Gcd(_, _)
Gcd(a, b) == IF b = 0 THEN a ELSE Gcd(b, a % b)

Sgn(x) == IF x > 0 THEN 1 ELSE IF x < 0 THEN -1 ELSE 0

Frac(n, d) ==
    IF d = 0 THEN [t |-> "num", n |-> Sgn(n), d |-> 0]
    ELSE With([g \in {Sgn(d) * Gcd(Abs(n), Abs(d))} |->
             [t |-> "num", n |-> n \div g, d |-> d \div g]])

Int2Num(k) == [t |-> "num", n |-> k, d |-> 1]
NaN == [t |-> "num", n |-> 0, d |-> 0]
PosInf == [t |-> "num", n |-> 1, d |-> 0]
Undefined == [t |-> "undef"]
Bool(b) == [t |-> "bool", b |-> b]
Str(s) == [t |-> "str", s |-> s]

IsNum(v) == v.t = "num"
IsNaN(v) == v.n = 0 /\ v.d = 0
\* isFinite of a number
isFinite(v) == v.d # 0

NumAdd(a, b) ==
    IF a.d = 0 \/ b.d = 0
    THEN (IF IsNaN(a) \/ IsNaN(b) \/ (a.d = 0 /\ b.d = 0 /\ b.n # a.n) THEN NaN
          ELSE IF a.d = 0 THEN a ELSE b)
    ELSE Frac(a.n * b.d + b.n * a.d, a.d * b.d)

NumNeg(a) == [t |-> "num", n |-> -a.n, d |-> a.d]

\* a * b and, with inverse, a / b; a product with a non-finite factor is
\* the non-finite number of the product's sign, and 0 * Infinity is NaN
NumMul(a, b) ==
    IF a.d = 0 \/ b.d = 0
    THEN [t |-> "num", n |-> Sgn(a.n) * Sgn(b.n), d |-> 0]
    ELSE Frac(a.n * b.n, a.d * b.d)

\* 1 / b, the sign kept in the numerator (1 / 0 is Infinity)
NumInv(b) == [t |-> "num", n |-> Sgn(b.n) * b.d, d |-> Abs(b.n)]

NumDiv(a, b) ==
    IF b.d = 0 THEN (IF a.d = 0 \/ b.n = 0 THEN NaN ELSE Int2Num(0))
    ELSE IF b.n = 0 THEN [t |-> "num", n |-> Sgn(a.n), d |-> 0]
    ELSE NumMul(a, NumInv(b))

\* a < b; false when either is NaN
NumLt(a, b) ==
    IF IsNaN(a) \/ IsNaN(b) THEN FALSE
    ELSE IF a.d = 0 THEN a.n < 0 /\ ~(b.d = 0 /\ b.n < 0)
    ELSE IF b.d = 0 THEN b.n > 0
    ELSE a.n * b.d < b.n * a.d

NumEq(a, b) == ~IsNaN(a) /\ a = b
NumLe(a, b) == NumLt(a, b) \/ NumEq(a, b)

RECURSIVE IntPow(_, _)
IntPow(a, k) == IF k = 0 THEN Int2Num(1) ELSE NumMul(a, IntPow(a, k - 1))

\* Math.trunc and Math.floor of a number
NumTrunc(a) ==
    IF a.d = 0 THEN a ELSE Int2Num(Sgn(a.n) * (Abs(a.n) \div a.d))
NumFloor(a) == IF a.d = 0 THEN a ELSE Int2Num(a.n \div a.d)

RECURSIVE Pow10(_)
Pow10(k) == IF k = 0 THEN 1 ELSE 10 * Pow10(k - 1)

\* the value of a run of decimal digits
RECURSIVE DigitsVal(_)
DigitsVal(ds) ==
    IF ds = <<>> THEN 0
    ELSE 10 * DigitsVal(SubSeq(ds, 1, Len(ds) - 1)) + DigitVal[ds[Len(ds)]]

\* the number  intDs.fracDs e(+/-)ex
DecimalValue(intDs, fracDs, ex, neg) ==
    Frac((DigitsVal(intDs) * Pow10(Len(fracDs)) + DigitsVal(fracDs))
            * (IF neg THEN 1 ELSE Pow10(ex)),
         Pow10(Len(fracDs)) * (IF neg THEN Pow10(ex) ELSE 1))

\* the position of the first digit an exponent at m would have: after e or
\* E and an optional sign; m itself when there is no e
ExponentStart(s, m) ==
    IF m <= Len(s) /\ s[m] \in {"e", "E"}
    THEN (IF m + 1 <= Len(s) /\ s[m + 1] \in {"+", "-"} THEN m + 2 ELSE m + 1)
    ELSE m

\* The longest prefix of s from position p that is a decimal literal
\* (digits, an optional fraction, an optional exponent): its value and the
\* position after it, or ok = FALSE when no digit is found.  i1 is the
\* position after the integer digits, m after the mantissa, sg the first
\* digit of the exponent and e1 the position after the exponent's digits.
ScanDecimal(s, p) ==
    With([i1 \in {RunEnd(s, p, DigitSet)} |->
    With([m \in {IF i1 <= Len(s) /\ s[i1] = "." THEN RunEnd(s, i1 + 1, DigitSet) ELSE i1} |->
    With([sg \in {ExponentStart(s, m)} |->
    With([e1 \in {IF sg > m THEN RunEnd(s, sg, DigitSet) ELSE m} |->
        IF m = p \/ (m = p + 1 /\ s[p] = ".")
        THEN [ok |-> FALSE, end |-> p, val |-> NaN]
        ELSE [ok |-> TRUE,
              end |-> IF e1 > sg THEN e1 ELSE m,
              val |-> DecimalValue(SubSeq(s, p, i1 - 1), SubSeq(s, i1 + 1, m - 1),
                                   IF e1 > sg THEN DigitsVal(SubSeq(s, sg, e1 - 1))
                                   ELSE 0,
                                   e1 > sg /\ s[m + 1] = "-")]])])])])

\* parseFloat: leading white space, an optional sign, then the longest
\* decimal literal; NaN when there is none
parseFloat(s) ==
    With([p \in {RunEnd(s, 1, SpaceSet)} |->
    With([signed \in {p <= Len(s) /\ s[p] \in {"+", "-"}} |->
    With([r \in {ScanDecimal(s, IF signed THEN p + 1 ELSE p)} |->
        IF ~r.ok THEN NaN
        ELSE IF signed /\ s[p] = "-" THEN NumNeg(r.val) ELSE r.val])])])

\* ------------------------------------------------- the expression guard

MAX_LOOP_ITERATIONS == 10000
MAX_SCRIPT_SIZE == 50000
MAX_EXPR_LENGTH == 60

\* the characters SAFE_EXPRESSION_REGEX admits besides letters, digits and
\* white space
SafePunct == {"+", "-", "*", "/", "^", "(", ")", ".", ",", "_", "'", "\"",
              "<", ">", "=", "&", "|", "!", "?", ":", "[", "]"}

\* SAFE_EXPRESSION_REGEX.test(expr): one or more admitted characters
SAFE_EXPRESSION_REGEX(expr) ==
    /\ expr # <<>>
    /\ \A k \in 1..Len(expr) :
          expr[k] \in LetterSet \cup DigitSet \cup SpaceSet \cup SafePunct

\* the character U+0060, which a string literal of this module cannot hold
Backquote == "<backquote>"

FORBIDDEN_KEYWORDS ==
    << Chars("window"), Chars("document"), Chars("alert"), Chars("eval"),
       Chars("function"), Chars("constructor"), Chars("prototype"),
       Chars("__proto__"), Chars("import"), Chars("export"), Chars("this"),
       Chars("self"), Chars(";"), Chars("{"), Chars("}"), Chars("=>"),
       <<Backquote>> >>

\* (as the keywords would be looked for, were they looked for in the text as
\* written)
FirstForbiddenAsWritten(expr) ==
    With([hits \in {{k \in 1..Len(FORBIDDEN_KEYWORDS) : includes(expr, FORBIDDEN_KEYWORDS[k])}} |->
            IF hits = {} THEN 0 ELSE CHOOSE k \in hits : \A j \in hits : k <= j])

\* the first forbidden keyword the lower-cased text includes, 0 when none
FirstForbidden(expr) ==
    With([hits \in {{k \in 1..Len(FORBIDDEN_KEYWORDS) :
            includes(toLowerCase(expr), FORBIDDEN_KEYWORDS[k])}} |->
            IF hits = {} THEN 0 ELSE CHOOSE k \in hits : \A j \in hits : k <= j])

jsifyExpression(expr) ==
    ReplaceAll(
      ReplaceAll(
        ReplaceAll(
          ReplaceAll(
            ReplaceAll(expr, <<"^">>, <<"*", "*">>, FALSE),
            <<"<", ">">>, <<"!", "=">>, FALSE),
          <<"=">>, <<"=", "=">>, FALSE),
        Chars("AND"), <<"&", "&">>, TRUE),
      Chars("OR"), <<"|", "|">>, TRUE)

\* ------------------------------------- the text handed to new Function
\* Tokens of the JavaScript expression grammar the scripts can reach.  A
\* token of kind "other" is a character the model gives no meaning to.

Ops3 == {"===", "!=="}
Ops2 == {"**", "==", "!=", "<=", ">=", "&&", "||", "++", "--"}
Ops1 == {"+", "-", "*", "/", "(", ")", ",", "<", ">", "!", "="}

\* the longest operator at position p, "" when there is none
OpAt(s, p) ==
    IF p + 2 <= Len(s) /\ (s[p] \o s[p + 1] \o s[p + 2]) \in Ops3
    THEN s[p] \o s[p + 1] \o s[p + 2]
    ELSE IF p + 1 <= Len(s) /\ (s[p] \o s[p + 1]) \in Ops2 THEN s[p] \o s[p + 1]
    ELSE IF s[p] \in Ops1 THEN s[p]
    ELSE ""

\* a token is its kind k, its value v and the position end after it
NumberToken(s, r) ==
    IF r.end <= Len(s) /\ s[r.end] \in WordSet \cup {"."}
    THEN [k |-> "bad", v |-> "number", end |-> r.end]
    ELSE [k |-> "num", v |-> r.val, end |-> r.end]

NameToken(s, p, e) == [k |-> "id", v |-> SubSeq(s, p, e - 1), end |-> e]

\* q is where the closing quote is, counted from the opening one
StringToken(s, p, q) ==
    IF q = 0 THEN [k |-> "bad", v |-> "string", end |-> Len(s) + 1]
    ELSE [k |-> "str", v |-> SubSeq(s, p + 1, p + q - 1), end |-> p + q + 1]

OpToken(s, p, op) ==
    IF op = "" THEN [k |-> "other", v |-> s[p], end |-> p + 1]
    ELSE [k |-> "op", v |-> op, end |-> p + Len(op)]

\* the token at p, where a character other than white space is; a line
\* comment ends the text, a block comment is not modelled
Token(s, p) ==
    IF s[p] \in DigitSet \/ (s[p] = "." /\ p < Len(s) /\ s[p + 1] \in DigitSet)
    THEN NumberToken(s, ScanDecimal(s, p))
    ELSE IF s[p] \in LetterSet \cup {"_"} THEN NameToken(s, p, RunEnd(s, p, WordSet))
    ELSE IF s[p] \in {"'", "\""}
    THEN StringToken(s, p, IndexOf(From(s, p + 1), <<s[p]>>))
    ELSE IF At(s, p, <<"/", "/">>, FALSE) THEN [k |-> "end", v |-> "", end |-> Len(s) + 1]
    ELSE IF At(s, p, <<"/", "*">>, FALSE)
    THEN [k |-> "other", v |-> "/*", end |-> Len(s) + 1]
    ELSE OpToken(s, p, OpAt(s, p))

RECURSIVE Tokenize(_, _)

\* the token t and the tokens after it
TokensFrom(s, t) ==
    IF t.k = "end" THEN <<>> ELSE <<t>> \o Tokenize(s, t.end)

\* the tokens of s from position p0
Tokenize(s, p0) ==
    IF RunEnd(s, p0, SpaceSet) > Len(s) THEN <<>>
    ELSE TokensFrom(s, Token(s, RunEnd(s, p0, SpaceSet)))

IsOp(ts, p, ops) == p <= Len(ts) /\ ts[p].k = "op" /\ ts[p].v \in ops

\* binary operators by precedence level, loosest first
LevelOps ==
    << {"||"}, {"&&"},
       {"==", "!=", "===", "!=="},
       {"<", ">", "<=", ">="},
       {"+", "-"}, {"*", "/"} >>

BinaryOps == UNION {LevelOps[l] : l \in 1..Len(LevelOps)}
Prec(op) == CHOOSE l \in 1..Len(LevelOps) : op \in LevelOps[l]

UnaryOps == {"-", "+", "!"}

\* the outcome of parsing: the tree ast and the index p of the next token, or
\* a SyntaxError, or a construct that is not modelled
POk(ast, p) == [r |-> "ok", ast |-> ast, p |-> p]
PSyntax == [r |-> "syntax"]
PUnsup == [r |-> "unsup"]

RECURSIVE PExpr(_, _, _), PClimb(_, _, _), PExp(_, _), PUnary(_, _),
          PCalls(_, _), PArgs(_, _, _)

\* ( e ) where e was parsed after the opening parenthesis
PClosed(ts, e) ==
    IF e.r # "ok" THEN e
    ELSE IF IsOp(ts, e.p, {")"}) THEN POk(e.ast, e.p + 1)
    ELSE PSyntax

PPrimary(ts, p) ==
    IF p > Len(ts) THEN PSyntax
    ELSE IF ts[p].k \in {"num", "str", "id"}
    THEN POk([k |-> ts[p].k, v |-> ts[p].v], p + 1)
    ELSE IF IsOp(ts, p, {"("}) THEN PClosed(ts, PExpr(ts, p + 1, 1))
    ELSE IF IsOp(ts, p, {"/"}) THEN PUnsup
    ELSE PSyntax

\* the arguments acc and the argument e, and those that follow it
PArgsFrom(ts, acc, e) ==
    IF e.r # "ok" THEN e
    ELSE IF IsOp(ts, e.p, {","}) THEN PArgs(ts, e.p + 1, Append(acc, e.ast))
    ELSE IF IsOp(ts, e.p, {")"}) THEN POk(Append(acc, e.ast), e.p + 1)
    ELSE PSyntax

\* the arguments of a call, from the token after "(" or after a ","
PArgs(ts, p, acc) == PArgsFrom(ts, acc, PExpr(ts, p, 1))

\* the call of a with the arguments as, and the calls that follow it
PCalled(ts, a, as) ==
    IF as.r # "ok" THEN as
    ELSE PCalls(ts, POk([k |-> "call", f |-> a.ast, args |-> as.ast], as.p))

\* the calls that follow the expression a
PCalls(ts, a) ==
    IF a.r # "ok" \/ ~IsOp(ts, a.p, {"("}) THEN a
    ELSE PCalled(ts, a, IF IsOp(ts, a.p + 1, {")"}) THEN POk(<<>>, a.p + 2)
                        ELSE PArgs(ts, a.p + 1, <<>>))

POperated(op, a) ==
    IF a.r # "ok" THEN a ELSE POk([k |-> "un", op |-> op, a |-> a.ast], a.p)

PUnary(ts, p) ==
    IF IsOp(ts, p, UnaryOps) THEN POperated(ts[p].v, PUnary(ts, p + 1))
    ELSE PCalls(ts, PPrimary(ts, p))

\* a op b
PBin(op, a, b) ==
    IF b.r # "ok" THEN b
    ELSE POk([k |-> "bin", op |-> op, a |-> a.ast, b |-> b.ast], b.p)

\* a ** b groups to the right, and its left operand is no unary expression
PRaised(ts, p, a) ==
    IF a.r # "ok" \/ ~IsOp(ts, a.p, {"**"}) THEN a
    ELSE IF IsOp(ts, p, UnaryOps) THEN PSyntax
    ELSE PBin("**", a, PExp(ts, a.p + 1))

PExp(ts, p) == PRaised(ts, p, PUnary(ts, p))

\* the expression a and the binary operators of level min or tighter that
\* follow it, each with its right operand of a tighter level: operators of
\* one level group to the left
PClimb(ts, a, min) ==
    IF a.r # "ok" \/ ~IsOp(ts, a.p, BinaryOps) THEN a
    ELSE IF Prec(ts[a.p].v) < min THEN a
    ELSE PClimb(ts, PBin(ts[a.p].v, a, PExpr(ts, a.p + 1, Prec(ts[a.p].v) + 1)), min)

\* an expression of the operators of level min or tighter
PExpr(ts, p, min) == PClimb(ts, PExp(ts, p), min)

\* the whole of the tokens ts is the expression e
PWhole(ts, e) == IF e.r # "ok" \/ e.p = Len(ts) + 1 THEN e ELSE PSyntax

\* name++ as the whole of the returned expression; an update expression
\* anywhere else is not modelled
PUpdate(name) == [r |-> "inc", name |-> name]

PTokens(ts) ==
    IF \E k \in 1..Len(ts) : ts[k].k = "bad" THEN PSyntax
    ELSE IF \E k \in 1..Len(ts) : ts[k].k = "other" THEN PUnsup
    ELSE IF ts = <<>> THEN [r |-> "empty"]
    ELSE IF Len(ts) = 2 /\ ts[1].k = "id" /\ IsOp(ts, 2, {"++"}) THEN PUpdate(ts[1].v)
    ELSE IF \E k \in 1..Len(ts) : IsOp(ts, k, {"++", "--"}) THEN PUnsup
    ELSE PWhole(ts, PExpr(ts, 1, 1))

\* new Function(..., `return ${jsExpr}`): the parse of the returned
\* expression ("empty" when nothing follows return)
ParseJs(jsExpr) == PTokens(Tokenize(jsExpr, 1))

\* ------------------------------------------------------------ evaluation
\* The outcome of an evaluation is a value (k = "val") or a thrown error
\* (k = "throw") with its message m; ev is the set of expression texts that
\* were handed to new Function on the way, inc the properties of the global
\* object that it incremented, one entry for each increment.

Val(v, ev) == [k |-> "val", v |-> v, ev |-> ev, inc |-> <<>>]
Thr(m, ev) == [k |-> "throw", m |-> m, ev |-> ev, inc |-> <<>>]

\* the outcome r after the texts ev were evaluated
After(ev, r) == [r EXCEPT !.ev = ev \cup @]

\* messages of the errors the JavaScript engine raises
NotDefined(name) == [kind |-> "NotDefined", name |-> name]
SyntaxErr == [kind |-> "SyntaxError"]
TypeErr == [kind |-> "TypeError"]
RangeErr == [kind |-> "RangeError"]
\* an operation the model gives no meaning to
Unsupported == [kind |-> "Unsupported"]

\* calls nested deeper than this exhaust the engine's call stack
MaxCallDepth == 3

\* words of the language that are no identifiers
JsLiterals == {Chars("true"), Chars("false")}
JsReserved ==
    {Chars("null"), Chars("new"), Chars("typeof"), Chars("void"), Chars("in"),
     Chars("delete"), Chars("instanceof"), Chars("return"), Chars("var"),
     Chars("let"), Chars("const"), Chars("if"), Chars("else"), Chars("for"),
     Chars("while"), Chars("do"), Chars("class"), Chars("super"),
     Chars("yield"), Chars("await"), Chars("async"), Chars("arguments")}

\* { ...f, ...g }
Merge(f, g) ==
    [x \in DOMAIN f \cup DOMAIN g |-> IF x \in DOMAIN g THEN g[x] ELSE f[x]]

IsPrim(v) == v.t \in {"num", "bool", "undef"}
ToNumber(v) ==
    IF v.t = "num" THEN v
    ELSE IF v.t = "bool" THEN Int2Num(IF v.b THEN 1 ELSE 0)
    ELSE NaN

Truthy(v) ==
    IF v.t = "num" THEN v.n # 0
    ELSE IF v.t = "bool" THEN v.b
    ELSE IF v.t = "str" THEN v.s # <<>>
    ELSE v.t # "undef"

\* the result of an operation: a value, or the error it throws
Some(v) == [ok |-> TRUE, v |-> v]
Throws(m) == [ok |-> FALSE, m |-> m]
NoMeaning == Throws(Unsupported)

\* a ** b for a whole exponent
NumPow(a, b) ==
    IF IsNaN(b) THEN Some(NaN)
    ELSE IF b.n = 0 /\ b.d = 1 THEN Some(Int2Num(1))
    ELSE IF IsNaN(a) THEN Some(NaN)
    ELSE IF a.d # 0 /\ b.d = 1
    THEN With([r \in {IntPow(a, Abs(b.n))} |->
             Some(IF b.n > 0 THEN r ELSE NumDiv(Int2Num(1), r))])
    ELSE NoMeaning

\* a op b on numbers
NumBin(op, a, b) ==
    IF op \in {"+", "-"} THEN Some(NumAdd(a, IF op = "-" THEN NumNeg(b) ELSE b))
    ELSE IF op = "*" THEN Some(NumMul(a, b))
    ELSE IF op = "/" THEN Some(NumDiv(a, b))
    ELSE IF op = "**" THEN NumPow(a, b)
    ELSE IF op \in {"<", ">"}
    THEN Some(Bool(NumLt(IF op = "<" THEN a ELSE b, IF op = "<" THEN b ELSE a)))
    ELSE IF op \in {"<=", ">="}
    THEN Some(Bool(NumLe(IF op = "<=" THEN a ELSE b, IF op = "<=" THEN b ELSE a)))
    ELSE IF op \in {"==", "===", "!=", "!=="}
    THEN Some(Bool(NumEq(a, b) = (op \in {"==", "==="})))
    ELSE NoMeaning

\* x op y on values
ApplyBin(op, x, y) ==
    IF op = "+" /\ x.t = "str" /\ y.t = "str" THEN Some(Str(x.s \o y.s))
    ELSE IF op \in {"===", "!=="} /\ x.t # y.t /\ IsPrim(x) /\ IsPrim(y)
    THEN Some(Bool(op = "!=="))
    ELSE IF op \in {"==", "!=", "===", "!=="} /\ x.t = "str" /\ y.t = "str"
    THEN Some(Bool((x.s = y.s) = (op \in {"==", "==="})))
    ELSE IF op \in {"==", "!=", "===", "!=="} /\ x.t = "undef" /\ y.t = "undef"
    THEN Some(Bool(op \in {"==", "==="}))
    ELSE IF op \in {"==", "!="} /\ (x.t = "undef") # (y.t = "undef")
            /\ IsPrim(x) /\ IsPrim(y)
    THEN Some(Bool(op = "!="))
    ELSE IF ~(IsPrim(x) /\ IsPrim(y)) THEN NoMeaning
    ELSE NumBin(op, ToNumber(x), ToNumber(y))

IsSquare(k) == \E r \in 0..k : r * r = k
Sqrt(k) == CHOOSE r \in 0..k : r * r = k

\* the digits of a natural number
RECURSIVE NatChars(_)
NatChars(k) ==
    IF k < 10 THEN <<DigitSeq[k + 1]>>
    ELSE NatChars(k \div 10) \o <<DigitSeq[(k % 10) + 1]>>

\* Number.prototype.toFixed(2) of a finite number; q is the number of
\* hundredths nearest to its magnitude
toFixed2(a) ==
    With([q \in {(2 * Abs(a.n) * 100 + a.d) \div (2 * a.d)} |->
        (IF a.n < 0 /\ q > 0 THEN <<"-">> ELSE <<>>)
        \o NatChars(q \div 100) \o <<".">>
        \o <<DigitSeq[((q % 100) \div 10) + 1], DigitSeq[(q % 10) + 1]>>])

\* the functions of Math the table holds, where their value is rational
BuiltinNames ==
    {"SIN", "COS", "TAN", "ASIN", "ACOS", "ATAN", "SINH", "COSH", "TANH",
     "ABS", "SQRT", "POW", "EXP", "LOG", "LOG10", "CEIL", "FLOOR", "ROUND",
     "MIN", "MAX", "STR", "INT"}

Arg(args, k) == IF k <= Len(args) THEN args[k] ELSE Undefined

\* Math.min (isMin) and Math.max of the arguments, from acc
RECURSIVE FoldMin(_, _, _)
FoldMin(args, acc, isMin) ==
    IF args = <<>> THEN acc
    ELSE With([x \in {ToNumber(Head(args))} |->
             FoldMin(Tail(args),
                     IF IsNaN(x) \/ IsNaN(acc) THEN NaN
                     ELSE IF NumLt(IF isMin THEN x ELSE acc, IF isMin THEN acc ELSE x)
                     THEN x
                     ELSE acc,
                     isMin)])

\* Math[name](x) of a number x that is not NaN
MathOf(name, x) ==
    IF name = "ABS" THEN Some([x EXCEPT !.n = Abs(x.n)])
    ELSE IF name = "INT" THEN Some(NumTrunc(x))
    ELSE IF name \in {"FLOOR", "CEIL"}
    THEN Some(IF name = "FLOOR" THEN NumFloor(x) ELSE NumNeg(NumFloor(NumNeg(x))))
    ELSE IF name = "ROUND" THEN Some(NumFloor(NumAdd(x, [t |-> "num", n |-> 1, d |-> 2])))
    ELSE IF name = "SQRT" /\ x.d # 0 /\ x.n >= 0 /\ IsSquare(x.n) /\ IsSquare(x.d)
    THEN Some([t |-> "num", n |-> Sqrt(x.n), d |-> Sqrt(x.d)])
    ELSE IF name \in {"SIN", "TAN", "ASIN", "ATAN", "SINH", "TANH"} /\ x = Int2Num(0)
    THEN Some(x)
    ELSE IF name \in {"COS", "COSH", "EXP"} /\ x = Int2Num(0) THEN Some(Int2Num(1))
    ELSE IF name \in {"LOG", "LOG10", "ACOS"} /\ x = Int2Num(1) THEN Some(Int2Num(0))
    ELSE NoMeaning

\* the call of a function of the initial table
CallBuiltin(name, args) ==
    IF \E k \in 1..Len(args) : ~IsPrim(args[k]) THEN NoMeaning
    ELSE IF name = "STR"
    THEN (IF Arg(args, 1).t # "num" THEN Throws(TypeErr)
          ELSE IF Arg(args, 1).d = 0 THEN NoMeaning
          ELSE Some(Str(toFixed2(Arg(args, 1)))))
    ELSE IF name \in {"MIN", "MAX"}
    THEN Some(FoldMin(args, IF name = "MIN" THEN PosInf ELSE NumNeg(PosInf),
                      name = "MIN"))
    ELSE With([x \in {ToNumber(Arg(args, 1))} |->
             IF name = "POW" THEN NumPow(x, ToNumber(Arg(args, 2)))
             ELSE IF IsNaN(x) THEN Some(NaN)
             ELSE MathOf(name, x)])

\* the text of an error message that wraps a failed evaluation
Failed(expr, inner) ==
    [kind |-> "Failed",
     expr |-> IF Len(expr) > MAX_EXPR_LENGTH
              THEN SubSeq(expr, 1, MAX_EXPR_LENGTH) \o Chars("...")
              ELSE expr,
     detail |-> IF inner.kind = "Failed" /\ inner.detail.kind = "NotDefined"
                THEN inner.detail ELSE inner]

RECURSIVE securelyEvaluate(_, _, _, _, _), Ev(_, _, _, _, _),
          EvArgs(_, _, _, _, _, _, _)

\* The value of an identifier: a binding of the context, else a property of
\* the global object amb, else a ReferenceError.
Resolve(name, ctx, amb) ==
    IF name \in DOMAIN ctx THEN Val(ctx[name], {})
    ELSE IF name \in JsLiterals THEN Val(Bool(name = Chars("true")), {})
    ELSE IF name \in JsReserved THEN Thr(Unsupported, {})
    ELSE IF name \in DOMAIN amb THEN Val(amb[name], {})
    ELSE Thr(NotDefined(name), {})

\* the arguments of a call after the k-th, whose outcome is r
EvArgsFrom(args, k, acc, ev, ctx, funcs, cfg, r) ==
    IF r.k = "throw" THEN After(ev, r)
    ELSE EvArgs(args, k + 1, Append(acc, r.v), ev \cup r.ev, ctx, funcs, cfg)

\* the arguments of a call, left to right
EvArgs(args, k, acc, ev, ctx, funcs, cfg) ==
    IF k > Len(args) THEN Val(acc, ev)
    ELSE EvArgsFrom(args, k, acc, ev, ctx, funcs, cfg,
                    Ev(args[k], ctx, funcs, cfg.amb, cfg.depth))

\* the parameters of f bound to the values of a call; of two parameters of
\* one name the later is bound
Scope(f, argValues) ==
    [a \in {f.args[j] : j \in 1..Len(f.args)} |->
        Arg(argValues, CHOOSE j \in 1..Len(f.args) :
                          /\ f.args[j] = a
                          /\ \A j2 \in (j + 1)..Len(f.args) : f.args[j2] # a)]

\* func(...argValues) of parseFunctionDefinition: the arguments bound to the
\* names of the definition, the body evaluated over the table and them
CallClosure(f, argValues, funcs, amb, depth) ==
    IF depth >= MaxCallDepth THEN Thr(RangeErr, {})
    ELSE securelyEvaluate(f.body, Merge(funcs, Scope(f, argValues)), funcs, amb,
                          depth + 1)

\* the value of -x, +x and !x
ApplyUn(op, x) ==
    IF op = "!" THEN Some(Bool(~Truthy(x)))
    ELSE IF ~IsPrim(x) THEN NoMeaning
    ELSE Some(IF op = "-" THEN NumNeg(ToNumber(x)) ELSE ToNumber(x))

\* the outcome of an operation whose operands were evaluated with ev
Applied(r, ev) == IF r.ok THEN Val(r.v, ev) ELSE Thr(r.m, ev)

\* op x, where x is the outcome of the operand
EvUn(op, x) ==
    IF x.k = "throw" THEN x ELSE Applied(ApplyUn(op, x.v), x.ev)

\* x op y, where x and y are the outcomes of the operands
EvOperands(op, x, y) ==
    IF y.k = "throw" \/ op \in {"||", "&&"} THEN After(x.ev, y)
    ELSE Applied(ApplyBin(op, x.v, y.v), x.ev \cup y.ev)

\* a op b, where x is the outcome of a: || and && leave b alone when a decides
EvBin(ast, x, ctx, funcs, amb, depth) ==
    IF x.k = "throw" THEN x
    ELSE IF ast.op \in {"||", "&&"} /\ Truthy(x.v) = (ast.op = "||") THEN x
    ELSE EvOperands(ast.op, x, Ev(ast.b, ctx, funcs, amb, depth))

\* the call of the value f with the outcome as of the arguments
EvApply(f, as, funcs, amb, depth) ==
    IF as.k = "throw" THEN as
    ELSE IF f.t = "builtin" THEN Applied(CallBuiltin(f.name, as.v), as.ev)
    ELSE IF f.t = "closure"
    THEN LET r == CallClosure(f, as.v, funcs, amb, depth)
         IN  IF r.inc # <<>> THEN Thr(Unsupported, as.ev \cup r.ev) ELSE After(as.ev, r)
    ELSE Thr(TypeErr, as.ev)

\* f(args), where x is the outcome of f
EvCall(ast, x, ctx, funcs, amb, depth) ==
    IF x.k = "throw" THEN x
    ELSE EvApply(x.v, EvArgs(ast.args, 1, <<>>, x.ev, ctx, funcs,
                             [amb |-> amb, depth |-> depth]),
                 funcs, amb, depth)

\* the value of the expression ast
Ev(ast, ctx, funcs, amb, depth) ==
    IF ast.k = "num" THEN Val(ast.v, {})
    ELSE IF ast.k = "str" THEN Val(Str(ast.v), {})
    ELSE IF ast.k = "id" THEN Resolve(ast.v, ctx, amb)
    ELSE IF ast.k = "un" THEN EvUn(ast.op, Ev(ast.a, ctx, funcs, amb, depth))
    ELSE IF ast.k = "bin"
    THEN EvBin(ast, Ev(ast.a, ctx, funcs, amb, depth), ctx, funcs, amb, depth)
    ELSE EvCall(ast, Ev(ast.f, ctx, funcs, amb, depth), ctx, funcs, amb, depth)

\* what securelyEvaluate makes of the outcome of evaluator(...): an
\* exception is thrown on as "Failed to evaluate", a number that is not
\* finite becomes 0
Returned(expr, outcome) ==
    IF outcome.k = "throw" THEN Thr(Failed(expr, outcome.m), {expr} \cup outcome.ev)
    ELSE Val(IF outcome.v.t = "num" /\ ~isFinite(outcome.v) THEN Int2Num(0)
             ELSE outcome.v,
             {expr} \cup outcome.ev)

\* the properties of the global object that no assignment changes
ReadOnlyGlobals == {Chars("Infinity")}

\* the global object amb after each of names was incremented
RECURSIVE Incremented(_, _)
Incremented(amb, names) ==
    IF names = <<>> THEN amb
    ELSE Incremented([amb EXCEPT ![Head(names)] = NumAdd(ToNumber(@), Int2Num(1))],
                     Tail(names))

\* return name++: the number the name stood for; a parameter of the
\* evaluator is incremented and lost with the call, a property of the global
\* object (the function is not in strict mode) stays incremented
Update(expr, name, context, amb) ==
    IF name \in JsLiterals \cup JsReserved
    THEN Thr(Failed(expr, SyntaxErr), {expr})
    ELSE IF name \in DOMAIN context
    THEN IF IsPrim(context[name]) THEN Returned(expr, Val(ToNumber(context[name]), {}))
         ELSE Thr(Failed(expr, Unsupported), {expr})
    ELSE IF name \notin DOMAIN amb THEN Returned(expr, Thr(NotDefined(name), {}))
    ELSE IF ~IsPrim(amb[name]) THEN Thr(Failed(expr, Unsupported), {expr})
    ELSE [Returned(expr, Val(ToNumber(amb[name]), {}))
             EXCEPT !.inc = IF name \in ReadOnlyGlobals THEN <<>> ELSE <<name>>]

\* evaluator(...Object.values(context)) for the parse evaluator of the
\* JavaScript text of expr
Run(expr, evaluator, context, funcs, amb, depth) ==
    IF evaluator.r \in {"syntax", "unsup"}
    THEN Thr(Failed(expr, IF evaluator.r = "syntax" THEN SyntaxErr ELSE Unsupported),
             {expr})
    ELSE IF evaluator.r = "empty" THEN Val(Undefined, {expr})
    ELSE IF evaluator.r = "inc" THEN Update(expr, evaluator.name, context, amb)
    ELSE Returned(expr, Ev(evaluator.ast, context, funcs, amb, depth))

\* why securelyEvaluate rejects expr unevaluated; forbidden is its first
\* forbidden keyword, or 0
Rejected(expr, forbidden) ==
    IF ~SAFE_EXPRESSION_REGEX(expr) THEN [kind |-> "InvalidChars"]
    ELSE IF forbidden # 0
    THEN [kind |-> "Forbidden", keyword |-> FORBIDDEN_KEYWORDS[forbidden]]
    ELSE [kind |-> "None"]

\* the evaluation of expr unless the guard rejects it
Guarded(expr, rejected, context, funcs, amb, depth) ==
    IF rejected.kind # "None" THEN Thr(rejected, {})
    ELSE Run(expr, ParseJs(jsifyExpression(expr)), context, funcs, amb, depth)

\* securelyEvaluate(expr, context).  funcs is the table state.functions the
\* closures of the context read when they are called, amb the global object
\* of the host, depth the number of calls in progress.
securelyEvaluate(expr, context, funcs, amb, depth) ==
    Guarded(expr, Rejected(expr, FirstForbidden(expr)), context, funcs, amb, depth)

\* the table a ParserState starts with, and its two constants
Builtin(name) == [t |-> "builtin", name |-> name]
Irrational(name) == [t |-> "irr", name |-> name]
InitialFunctions ==
    [x \in {Chars(b) : b \in BuiltinNames} \cup {Chars("PI"), Chars("E")} |->
        IF x \in {Chars("PI"), Chars("E")}
        THEN Irrational(IF x = Chars("E") THEN "E" ELSE "PI")
        ELSE Builtin(CHOOSE b \in BuiltinNames : Chars(b) = x)]

\* ------------------------------------------------------------ ParserState
\* st is a ParserState: functions, functionBodies, errors and commands, and
\* with them evaluated, the expression texts handed to new Function so far,
\* and global, the global object as the evaluations so far left it.

VARIABLES
    script,      \* the argument of parseG3D: its lines, and the length of a
                 \* closing comment line that pads it (0 when it has none)
    ambient,     \* the global object of the host the parser runs in
    pc,          \* where parseG3D is: "start", "main", "loop", "done"
    i,           \* the index of the main loop (0-based, as in the code)
    loop,        \* the FOR loop in progress
    state,       \* the ParserState
    visited,     \* the numbers of the lines the main loop has taken up, as
                 \* a statement or as part of a loop it has run
    result,      \* what parseG3D returned
    invoked,     \* the last call of the function of a returned command
    calls,       \* the calls of parseG3D that returned before this one, each
                 \* with its script and its result
    worker,      \* the service worker: its phase, the CacheStorage, the caches
                 \* it deleted, the last request and what it was served with
    app          \* the state of the App component

parser == <<script, ambient, pc, i, loop, visited, state, result, invoked, calls>>
vars == <<script, ambient, pc, i, loop, visited, state, result, invoked, calls,
          worker, app>>

NewParserState ==
    [functions |-> InitialFunctions,
     functionBodies |-> <<>>,
     errors |-> <<>>,
     commands |-> <<>>,
     evaluated |-> {},
     global |-> ambient]

\* (as an error would be recorded, were the commands before it given up)
addErrorAlone(st, line, message) ==
    [st EXCEPT !.errors = Append(@, [line |-> line, message |-> message]),
               !.commands = <<>>]

addError(st, line, message) ==
    [st EXCEPT !.errors = Append(@, [line |-> line, message |-> message])]

\* (as a command would be recorded, were it put before the others)
unshiftCommand(st, cmd) == [st EXCEPT !.commands = <<cmd>> \o @]

\* state.commands.push(cmd)
pushCommand(st, cmd) == [st EXCEPT !.commands = Append(@, cmd)]

Msg(kind) == [kind |-> kind]

\* ---------------------------------------------------- regular expressions
\* A regular expression is the sequence of its items.  Every one of the
\* parser's line patterns has the i flag: letters match without case.

Lit(str) == <<[k |-> "lit", v |-> Chars(str)]>>
\* (?:a|b), the alternatives in order
Alt(strs) == <<[k |-> "alt", vs |-> [j \in 1..Len(strs) |-> Chars(strs[j])]]>>
\* (?:str)?
Opt(str) == <<[k |-> "opt", v |-> Chars(str)]>>
\* [cls]+
Run1(cls) == <<[k |-> "run", cls |-> cls, min |-> 1]>>
\* \s* and \s+
Ws0 == <<[k |-> "run", cls |-> SpaceSet, min |-> 0]>>
Ws1 == <<[k |-> "run", cls |-> SpaceSet, min |-> 1]>>
\* .*? and .*
AnyLazy == <<[k |-> "any", lazy |-> TRUE]>>
AnyGreedy == <<[k |-> "any", lazy |-> FALSE]>>
\* \n, the text of group n
Ref(n) == <<[k |-> "ref", n |-> n]>>
\* ( items )
Group(items) == <<[k |-> "open"]>> \o items \o <<[k |-> "close"]>>

NumSet == DigitSet \cup {"-", "."}
NumESet == NumSet \cup {"e", "E"}


Downto(hi, lo) == [j \in 1..(hi - lo + 1) |-> hi - j + 1]
Upto(lo, hi) == [j \in 1..(hi - lo + 1) |-> lo + j - 1]

\* where a literal at p ends
LitEnds(s, p, lit) == IF At(s, p, lit, TRUE) THEN <<p + Len(lit)>> ELSE <<>>
\* where the alternatives that are at p end
AltEnds(p, alts) == [j \in 1..Len(alts) |-> p + Len(alts[j])]
\* where a run of at least min characters from p may end, e the end of the
\* longest
RunEnds(p, e, min) == IF e - p < min THEN <<>> ELSE Downto(e, p + min)

\* the positions where a match of item it from p may end, the one the
\* regular expression engine tries first first
Ends(s, p, it, groups) ==
    IF it.k = "lit" THEN LitEnds(s, p, it.v)
    ELSE IF it.k = "ref" THEN LitEnds(s, p, groups[it.n])
    ELSE IF it.k = "opt" THEN LitEnds(s, p, it.v) \o <<p>>
    ELSE IF it.k = "alt"
    THEN AltEnds(p, SelectSeq(it.vs, LAMBDA v : At(s, p, v, TRUE)))
    ELSE IF it.k = "run" THEN RunEnds(p, RunEnd(s, p, it.cls), it.min)
    ELSE IF it.lazy THEN Upto(p, Len(s) + 1)
    ELSE Downto(Len(s) + 1, p)

\* A partial match c is the position p it has reached, the groups closed so
\* far and where the open group began.  The partial matches one more item
\* makes of c, in the order the engine tries them:
MoveTo(c, ends) == [j \in 1..Len(ends) |-> [c EXCEPT !.p = ends[j]]]

Step(s, it, c) ==
    IF it.k = "open" THEN <<[c EXCEPT !.open = c.p]>>
    ELSE IF it.k = "close"
    THEN <<[c EXCEPT !.groups = Append(@, SubSeq(s, c.open, c.p - 1))]>>
    ELSE MoveTo(c, Ends(s, c.p, it, c.groups))

\* The partial matches the item it makes of the partial matches cs[lo..hi],
\* those of cs[lo] first
RECURSIVE Steps(_, _, _, _, _)
Steps(s, it, cs, lo, hi) ==
    IF lo = hi THEN Step(s, it, cs[lo])
    ELSE Steps(s, it, cs, lo, (lo + hi) \div 2)
         \o Steps(s, it, cs, (lo + hi) \div 2 + 1, hi)

\* The partial matches the items lo..hi make of the partial matches cs, in
\* the order in which backtracking reaches them: those of the first of cs
\* first, and of these the ones of the first choice for the first item.
RECURSIVE Partial(_, _, _, _, _)
Partial(s, items, lo, hi, cs) ==
    IF cs = <<>> THEN <<>>
    ELSE IF lo = hi THEN Steps(s, items[lo], cs, 1, Len(cs))
    ELSE LET half == Partial(s, items, lo, (lo + hi) \div 2, cs)
         IN  Partial(s, items, (lo + hi) \div 2 + 1, hi, half)

\* a match may start at any position, the leftmost first
Starts(s) == [p \in 1..(Len(s) + 1) |-> [p |-> p, groups |-> <<>>, open |-> 0]]

\* the match backtracking finds: the first of all
FirstMatch(cs) ==
    IF cs = <<>> THEN [ok |-> FALSE] ELSE [ok |-> TRUE, groups |-> cs[1].groups]

\* String.prototype.match of a regular expression without the g flag: the
\* leftmost match, groups[n] the text of its group n
MatchRegex(s, regex) == FirstMatch(Partial(s, regex, 1, Len(regex), Starts(s)))

\* (FN[A-Z0-9]+)
FnName == Group(Lit("FN") \o Run1(AlnumSet))
\* ([-\d.]+) and ([\d]+)
NumberGroup == Group(Run1(NumSet))
DigitsGroup == Group(Run1(DigitSet))
\* COLOR\s+([\d]+),\s*([\d]+),\s*([\d]+)
ColorItems ==
    Lit("COLOR") \o Ws1 \o DigitsGroup \o Lit(",") \o Ws0 \o DigitsGroup \o Lit(",")
    \o Ws0 \o DigitsGroup

\* /DEF\s+(FN[A-Z0-9]+)\((.*?)\)\s*=\s*(.*)/i
simpleDefRegex ==
    Lit("DEF") \o Ws1 \o FnName \o Lit("(") \o Group(AnyLazy) \o Lit(")")
    \o Ws0 \o Lit("=") \o Ws0 \o Group(AnyGreedy)

\* /(FN[A-Z0-9]+)\s*=\s*\1\s*\+\s*(.*)/i
continuationRegex ==
    FnName \o Ws0 \o Lit("=") \o Ws0 \o Ref(1) \o Ws0 \o Lit("+") \o Ws0
    \o Group(AnyGreedy)

\* /PLOT3D\s+(FN[A-Z0-9]+)\(X,Y\)/i
plot3DRegex == Lit("PLOT3D") \o Ws1 \o FnName \o Lit("(X,Y)")

\* /CIRCLE3D\s+([-\d.]+),\s*([-\d.]+),\s*([-\d.]+)\s+WITH\s+RADIUS\s+([-\d.]+)\s+COLOR\s+([\d]+),\s*([\d]+),\s*([\d]+)/i
circle3DRegex ==
    Lit("CIRCLE3D") \o Ws1 \o NumberGroup \o Lit(",") \o Ws0 \o NumberGroup \o Lit(",")
    \o Ws0 \o NumberGroup \o Ws1 \o Lit("WITH") \o Ws1 \o Lit("RADIUS") \o Ws1
    \o NumberGroup \o Ws1 \o ColorItems

\* /(?:TEXT|LABEL)\s+AT\s+(.*?)\s+(?:TEXT)?\s*"(.*)"/i
textRegex ==
    Alt(<<"TEXT", "LABEL">>) \o Ws1 \o Lit("AT") \o Ws1 \o Group(AnyLazy)
    \o Ws1 \o Opt("TEXT") \o Ws0 \o Lit("\"") \o Group(AnyGreedy) \o Lit("\"")

\* /PLOT\s+POINT3D\s+(.*?)\s+COLOR\s+([\d]+),\s*([\d]+),\s*([\d]+)\s+SIZE\s+([\d.]+)/i
plotPoint3DRegex ==
    Lit("PLOT") \o Ws1 \o Lit("POINT3D") \o Ws1 \o Group(AnyLazy) \o Ws1
    \o ColorItems \o Ws1 \o Lit("SIZE") \o Ws1
    \o Group(Run1(DigitSet \cup {"."}))

\* /FOR\s+(\w+)\s*=\s*([-\d.eE]+)\s+TO\s+([-\d.eE]+)\s+STEP\s+([-\d.eE]+)/i
forRegex ==
    Lit("FOR") \o Ws1 \o Group(Run1(WordSet)) \o Ws0 \o Lit("=") \o Ws0
    \o Group(Run1(NumESet)) \o Ws1 \o Lit("TO") \o Ws1 \o Group(Run1(NumESet))
    \o Ws1 \o Lit("STEP") \o Ws1 \o Group(Run1(NumESet))

\* /SET\s+VIEW\s+ANGLE\s+([-\d.]+),\s*([-\d.]+)/i
setViewRegex ==
    Lit("SET") \o Ws1 \o Lit("VIEW") \o Ws1 \o Lit("ANGLE") \o Ws1 \o NumberGroup
    \o Lit(",") \o Ws0 \o NumberGroup

\* /SET\s+GRID\s+(ON|OFF)/i and /SET\s+AXES\s+(ON|OFF)/i
setGridRegex ==
    Lit("SET") \o Ws1 \o Lit("GRID") \o Ws1 \o Group(Alt(<<"ON", "OFF">>))
setAxesRegex ==
    Lit("SET") \o Ws1 \o Lit("AXES") \o Ws1 \o Group(Alt(<<"ON", "OFF">>))

\* /G_VALUE\s*=\s*(.*)/i
gValueRegex == Lit("G_VALUE") \o Ws0 \o Lit("=") \o Ws0 \o Group(AnyGreedy)

\* the characters with the codes 32 to 126, in the order of their codes
Ascii ==
    Chars(" !\"#$%&'()*+,-./0123456789:;<=>?@ABCDEFGHIJKLMNOPQRSTUVWXYZ[\\]^_")
    \o <<Backquote>> \o Chars("abcdefghijklmnopqrstuvwxyz{|}~")

\* String.prototype.charCodeAt of a one-character string
charCodeAt(c) == 31 + CHOOSE k \in 1..Len(Ascii) : Ascii[k] = c

\* the digits of Number.prototype.toString(36)
Digits36 == Chars("0123456789abcdefghijklmnopqrstuvwxyz")


\* A 32-bit integer is held as the two 16-bit halves hi and lo of its
\* unsigned value.  Math.abs of the signed value they stand for:
Abs32(h) ==
    IF h.hi < 32768 THEN h
    ELSE [hi |-> 65535 - h.hi + (IF h.lo = 0 THEN 1 ELSE 0),
          lo |-> (65536 - h.lo) % 65536]

\* v.toString(36) of a natural number held the same way; r is what is left
\* of the high half joined with the low half
RECURSIVE ToString36(_)
ToString36(v) ==
    With([r \in {(v.hi % 36) * 65536 + v.lo} |->
        (IF v.hi \div 36 = 0 /\ r \div 36 = 0 THEN <<>>
         ELSE ToString36([hi |-> v.hi \div 36, lo |-> r \div 36]))
        \o <<Digits36[(r % 36) + 1]>>])

\* hash * 31 + char, kept to 32 bits
Next32(hash, char) ==
    With([lo \in {hash.lo * 31 + char} |->
        [hi |-> (hash.hi * 31 + lo \div 65536) % 65536, lo |-> lo % 65536]])

\* for (i = 0; i < str.length; i++): hash = ((hash << 5) - hash) + char;
\* hash = hash & hash, over the characters lo..hi of str in their order
RECURSIVE HashOver(_, _, _, _)
HashOver(str, lo, hi, hash) ==
    IF lo > hi THEN hash
    ELSE IF lo = hi THEN Next32(hash, charCodeAt(str[lo]))
    ELSE With([h \in {HashOver(str, lo, (lo + hi) \div 2, hash)} |->
             HashOver(str, (lo + hi) \div 2 + 1, hi, h)])

hashString(str) == ToString36(Abs32(HashOver(str, 1, Len(str), [hi |-> 0, lo |-> 0])))
\* ------------------------------------------------------ statement parsers

\* an evaluation made for a statement: its texts join st.evaluated, and the
\* global object is as the evaluation left it
Evaluated(st, r) ==
    [st EXCEPT !.evaluated = @ \cup r.ev, !.global = Incremented(@, r.inc)]

\* no expression of a statement evaluated yet
NoneYet == [acc |-> <<>>, ev |-> {}, inc |-> <<>>]

\* securelyEvaluate of each of exprs in turn over one context, up to the
\* first that throws; amb is the global object, done what the expressions
\* before gave
RECURSIVE EvalEach(_, _, _, _, _)
EvalEach(exprs, context, funcs, amb, done) ==
    IF exprs = <<>> THEN [Val(done.acc, done.ev) EXCEPT !.inc = done.inc]
    ELSE With([r \in {securelyEvaluate(Head(exprs), context, funcs, amb, 0)} |->
             IF r.k = "throw" THEN [After(done.ev, r) EXCEPT !.inc = done.inc \o @]
             ELSE EvalEach(Tail(exprs), context, funcs, Incremented(amb, r.inc),
                           [acc |-> Append(done.acc, r.v), ev |-> done.ev \cup r.ev,
                            inc |-> done.inc \o r.inc])])

\* the state after the expressions of a statement were evaluated with
\* outcome r: the error added in the catch block, or the command cmd pushed
Concluded(st, lineNumber, r, cmd) ==
    IF r.k = "throw" THEN addError(Evaluated(st, r), lineNumber, r.m)
    ELSE pushCommand(Evaluated(st, r), cmd)

\* s.split(',').map(s => s.trim())
SplitTrim(s) == With([ps \in {Split(s, ",")} |-> [k \in 1..Len(ps) |-> trim(ps[k])]])

\* .map(s => s.trim().toUpperCase()).filter(Boolean)
ArgNames(s) ==
    With([ps \in {SplitTrim(s)} |->
        SelectSeq([k \in 1..Len(ps) |-> toUpperCase(ps[k])], LAMBDA a : a # <<>>)])

\* (as the body would be, were the two texts joined as they are)
JoinedBody(oldBody, addition) == oldBody \o Chars(" + ") \o addition

\* the body a continuation gives the function
ContinuationBody(oldBody, addition) ==
    <<"(">> \o oldBody \o Chars(") + (") \o addition \o <<")">>

\* (as the registration would be, were the function left out of state.functions)
RegisterBodyOnly(st, funcName, args, body) ==
    [st EXCEPT
        !.functionBodies = Merge(@, funcName :> [args |-> args, body |-> body])]

\* state.functionBodies[funcName] = { args, body }; state.functions[funcName] = func
Register(st, funcName, args, body) ==
    [st EXCEPT
        !.functionBodies = Merge(@, funcName :> [args |-> args, body |-> body]),
        !.functions = Merge(@, funcName :>
                               [t |-> "closure", args |-> args, body |-> body])]

\* (as the continuation branch would be, did it not return after its error)
ContinuationGoingOn(st, lineNumber, funcName, addition) ==
    Register(addError(st, lineNumber,
                      [kind |-> "Function not defined before continuation",
                       name |-> funcName]),
             funcName, <<>>, ContinuationBody(Chars("undefined"), addition))

\* the continuation branch of parseFunctionDefinition
Continuation(st, lineNumber, funcName, addition) ==
    IF funcName \notin DOMAIN st.functionBodies
    THEN addError(st, lineNumber,
                  [kind |-> "Function not defined before continuation",
                   name |-> funcName])
    ELSE Register(st, funcName, st.functionBodies[funcName].args,
                  ContinuationBody(st.functionBodies[funcName].body, addition))

\* (as the name would be, were it kept as the script writes it)
FuncNameAsWritten(written) == written

\* funcName = simpleDefMatch[1].toUpperCase(), and so of continuationMatch[1]
FuncName(written) == toUpperCase(written)

parseFunctionDefinition(line, st, lineNumber) ==
    With([simpleDefMatch \in {MatchRegex(line, simpleDefRegex)} |->
        IF simpleDefMatch.ok
        THEN Register(st, FuncName(simpleDefMatch.groups[1]),
                      ArgNames(simpleDefMatch.groups[2]), simpleDefMatch.groups[3])
        ELSE With([continuationMatch \in {MatchRegex(line, continuationRegex)} |->
                 IF continuationMatch.ok
                 THEN Continuation(st, lineNumber,
                                   FuncName(continuationMatch.groups[1]),
                                   continuationMatch.groups[2])
                 ELSE addError(st, lineNumber,
                               Msg("Invalid function definition syntax"))])])

\* /\bn\b/i.test(body)
UsesN(body) ==
    \E k \in 1..Len(body) :
        /\ UpChar(body[k]) = "N"
        /\ (k = 1 \/ body[k - 1] \notin WordSet)
        /\ (k = Len(body) \/ body[k + 1] \notin WordSet)

\* the command of a PLOT3D statement for the function funcName
Plot3DCommand(st, lineNumber, funcName) ==
    With([funcBody \in {st.functionBodies[funcName]} |->
        [type |-> "PLOT3D",
         func |-> st.functions[funcName],
         funcBody |-> funcBody,
         funcHash |-> hashString(funcBody.body),
         usesN |-> UsesN(funcBody.body),
         line |-> lineNumber]])

parsePlot3D(line, st, lineNumber) ==
    With([match \in {MatchRegex(line, plot3DRegex)} |->
        IF ~match.ok THEN addError(st, lineNumber, Msg("Invalid PLOT3D syntax"))
        ELSE With([funcName \in {toUpperCase(match.groups[1])} |->
                 IF /\ funcName \in DOMAIN st.functions
                    /\ st.functions[funcName].t \in {"closure", "builtin"}
                    /\ funcName \in DOMAIN st.functionBodies
                 THEN pushCommand(st, Plot3DCommand(st, lineNumber, funcName))
                 ELSE addError(st, lineNumber,
                               [kind |-> "Function not defined for PLOT3D",
                                name |-> funcName])])])

\* { r: r / 255, g: g / 255, b: b / 255 } of the numbers v[k], v[k+1], v[k+2]
Color(v, k) ==
    [r |-> NumDiv(v[k], Int2Num(255)), g |-> NumDiv(v[k + 1], Int2Num(255)),
     b |-> NumDiv(v[k + 2], Int2Num(255))]

\* match.map(parseFloat), without its element 0
MapParseFloat(groups) == [k \in 1..Len(groups) |-> parseFloat(groups[k])]

parseCircle3D(line, st, lineNumber) ==
    With([match \in {MatchRegex(line, circle3DRegex)} |->
        IF ~match.ok THEN addError(st, lineNumber, Msg("Invalid CIRCLE3D syntax"))
        ELSE With([v \in {MapParseFloat(match.groups)} |->
                 pushCommand(st,
                   [type |-> "CIRCLE3D",
                    center |-> [x |-> v[1], y |-> v[2], z |-> v[3]],
                    radius |-> v[4],
                    color |-> Color(v, 5),
                    line |-> lineNumber])])])

\* String(value)
String(v) ==
    IF v.t = "str" THEN v.s
    ELSE IF v.t = "bool" THEN (IF v.b THEN Chars("true") ELSE Chars("false"))
    ELSE IF v.t = "undef" THEN Chars("undefined")
    ELSE IF v.t = "num" /\ v.d = 1
    THEN (IF v.n < 0 THEN <<"-">> ELSE <<>>) \o NatChars(Abs(v.n))
    ELSE IF v.t = "num" /\ v.d = 0
    THEN (IF v.n = 0 THEN Chars("NaN") ELSE IF v.n > 0 THEN Chars("Infinity")
          ELSE Chars("-Infinity"))
    ELSE Chars("<unsupported>")

parseText(line, st, lineNumber, scope) ==
    With([match \in {MatchRegex(line, textRegex)} |->
        IF ~match.ok THEN addError(st, lineNumber, Msg("Invalid TEXT/LABEL AT syntax"))
        ELSE With([posParts \in {SplitTrim(match.groups[1])} |->
            IF Len(posParts) # 3
            THEN addError(st, lineNumber, Msg("TEXT/LABEL AT requires 3 coordinates"))
            ELSE With([r \in {EvalEach(posParts \o <<<<"\"">> \o match.groups[2] \o <<"\"">>>>,
                              Merge(st.functions, scope), st.functions,
                              st.global, NoneYet)} |->
                Concluded(st, lineNumber, r,
                          [type |-> "TEXT",
                           position |-> [x |-> r.v[1], y |-> r.v[2], z |-> r.v[3]],
                           text |-> String(r.v[4]),
                           line |-> lineNumber])])])])

parsePlotPoint3D(line, st, lineNumber, scope) ==
    With([match \in {MatchRegex(line, plotPoint3DRegex)} |->
        IF ~match.ok THEN addError(st, lineNumber, Msg("Invalid PLOT POINT3D syntax"))
        ELSE With([posParts \in {SplitTrim(match.groups[1])} |->
            IF Len(posParts) # 3
            THEN addError(st, lineNumber, Msg("PLOT POINT3D requires 3 coordinates"))
            ELSE With([r \in {EvalEach(posParts, Merge(st.functions, scope), st.functions,
                              st.global, NoneYet)} |->
                Concluded(st, lineNumber, r,
                          [type |-> "PLOT_POINT3D",
                           position |-> [x |-> r.v[1], y |-> r.v[2], z |-> r.v[3]],
                           color |-> Color(MapParseFloat(match.groups), 2),
                           size |-> parseFloat(match.groups[5]),
                           line |-> lineNumber])])])])

\* the ForLoop of a FOR line, or ok = FALSE for null
parseFor(line) ==
    With([match \in {MatchRegex(line, forRegex)} |->
        IF ~match.ok THEN [ok |-> FALSE]
        ELSE With([v \in {MapParseFloat(match.groups)} |->
                 [ok |-> TRUE, variable |-> toUpperCase(match.groups[1]),
                  start |-> v[2], end |-> v[3], step |-> v[4]]])])

parseSetView(line, st, lineNumber) ==
    With([match \in {MatchRegex(line, setViewRegex)} |->
        IF ~match.ok THEN addError(st, lineNumber, Msg("Invalid SET VIEW syntax"))
        ELSE With([v \in {MapParseFloat(match.groups)} |->
                 pushCommand(st, [type |-> "SET_VIEW", azimuth |-> v[1],
                                  elevation |-> v[2], line |-> lineNumber])])])

\* parseSetGrid and parseSetAxes, which differ in their pattern and in the
\* type of their command
SetVisible(line, st, lineNumber, regex, type) ==
    With([match \in {MatchRegex(line, regex)} |->
        IF match.ok
        THEN pushCommand(st, [type |-> type,
                              visible |-> toUpperCase(match.groups[1]) = Chars("ON"),
                              line |-> lineNumber])
        ELSE addError(st, lineNumber,
                      Msg(IF type = "SET_GRID" THEN "Invalid SET GRID syntax"
                          ELSE "Invalid SET AXES syntax"))])

parseSetGrid(line, st, lineNumber) ==
    SetVisible(line, st, lineNumber, setGridRegex, "SET_GRID")

parseSetAxes(line, st, lineNumber) ==
    SetVisible(line, st, lineNumber, setAxesRegex, "SET_AXES")

\* line.split(' ')[0].toUpperCase()
Command(line) == toUpperCase(Split(line, " ")[1])
\* the characters of s that are no white space
Inked(s) == {s[k] : k \in 1..Len(s)} \ SpaceSet

\* the part of line that starts at p, <<>> past the end
PartAt(line, p) ==
    IF p > Len(line) THEN <<>> ELSE SubSeq(line, p, RunEnd(line, p, Inked(line)) - 1)

\* line.split(/\s+/)[1]?.toUpperCase(), <<>> when there is no second part:
\* the part after the first run of white space
SecondPart(line) ==
    toUpperCase(PartAt(line, RunEnd(line, RunEnd(line, 1, Inked(line)), SpaceSet)))

\* the G_VALUE branch of processLine
GValue(line, lineNumber, st, scope) ==
    With([match \in {MatchRegex(line, gValueRegex)} |->
        IF ~match.ok THEN st
        ELSE With([r \in {EvalEach(<<match.groups[1]>>, Merge(st.functions, scope),
                          st.functions,
                              st.global, NoneYet)} |->
                     IF r.k = "throw" THEN addError(Evaluated(st, r), lineNumber, r.m)
                     ELSE Evaluated(st, r)])])

processLine(line, lineNumber, st, scope) ==
    With([command \in {Command(line)} |->
        IF command = Chars("DEF")
           \/ (startsWith(command, Chars("FN")) /\ includes(line, <<"=">>))
        THEN parseFunctionDefinition(line, st, lineNumber)
        ELSE IF command = Chars("PLOT3D") THEN parsePlot3D(line, st, lineNumber)
        ELSE IF command = Chars("CIRCLE3D") THEN parseCircle3D(line, st, lineNumber)
        ELSE IF command \in {Chars("TEXT"), Chars("LABEL")}
        THEN parseText(line, st, lineNumber, scope)
        ELSE IF command = Chars("PLOT")
        THEN (IF SecondPart(line) = Chars("POINT3D")
              THEN parsePlotPoint3D(line, st, lineNumber, scope) ELSE st)
        ELSE IF command = Chars("G_VALUE") THEN GValue(line, lineNumber, st, scope)
        ELSE st])

\* ---------------------------------------------------------------- parseG3D

\* The text of a script is its lines joined by line breaks.  When pad > 0
\* one more line closes it, a comment of pad characters that starts with ";".
PadLine == <<";">>

RECURSIVE SumLen(_)
SumLen(ls) == IF ls = <<>> THEN 0 ELSE Len(Head(ls)) + SumLen(Tail(ls))

\* script.length
ScriptLength(sc) ==
    SumLen(sc.lines) + (Len(sc.lines) - 1) + (IF sc.pad > 0 THEN 1 + sc.pad ELSE 0)

\* script.split('\n')
Lines(sc) == sc.lines \o (IF sc.pad > 0 THEN <<PadLine>> ELSE <<>>)

\* line.replace(/^(\d+)\s+/, '')
StripLabel(line) ==
    With([d \in {RunEnd(line, 1, DigitSet)} |->
        IF d > 1 /\ d <= Len(line) /\ line[d] \in SpaceSet
        THEN From(line, RunEnd(line, d, SpaceSet)) ELSE line])

\* originalLine.split(';')[0].trim(), without its numeric label
CleanLine(content) == StripLabel(trim(Split(content, ";")[1]))

\* whether the main loop skips a cleaned line
Skipped(line) == line = <<>> \/ startsWith(toUpperCase(line), Chars("REM"))

\* (as a line would be numbered, were only the lines counted that are not
\* skipped)
LineNumberOfStatements(index) ==
    Cardinality({n \in 1..(index + 1) : ~Skipped(CleanLine(Lines(script)[n]))})

\* number: index + 1, the number of the line at index of script.split('\n')
LineNumber(index) == index + 1

NoLoop ==
    [variable |-> <<>>, start |-> NaN, end |-> NaN, step |-> NaN, val |-> NaN,
     iterations |-> 0, bodyLines |-> <<>>, nextIndex |-> -1, line |-> 0]

SizeError == [line |-> 1, message |-> [kind |-> "Script too large", max |-> MAX_SCRIPT_SIZE]]

\* (as a script of MAX_SCRIPT_SIZE characters would be rejected, were the
\* comparison >=)
AtLeastCap(length) == length >= MAX_SCRIPT_SIZE

\* script.length > MAX_SCRIPT_SIZE
TooLarge(length) == length > MAX_SCRIPT_SIZE

\* the index (0-based) of the first line after index from that is NEXT <var>,
\* or -1
FindNext(lines, from, variable) ==
    With([hits \in {{j \in (from + 1)..(Len(lines) - 1) :
            toUpperCase(CleanLine(lines[j + 1])) = Chars("NEXT ") \o variable}} |->
            IF hits = {} THEN -1 ELSE CHOOSE j \in hits : \A h \in hits : j <= h])

\* the lines between a FOR at index from and its NEXT at index nextIndex
BodyLines(lines, from, nextIndex) ==
    [k \in 1..(nextIndex - from - 1) |->
        [content |-> CleanLine(lines[from + k + 1]), number |-> LineNumber(from + k)]]

\* one pass over the body of a loop
RECURSIVE RunBody(_, _, _, _)
RunBody(bodyLines, k, st, loopScope) ==
    IF k > Len(bodyLines) THEN st
    ELSE RunBody(bodyLines, k + 1,
                 IF bodyLines[k].content # <<>>
                 THEN processLine(bodyLines[k].content, bodyLines[k].number,
                                  st, loopScope)
                 ELSE st,
                 loopScope)

\* parseG3D is called: the size check, and the ParserState is made
ParseStart ==
    /\ pc = "start"
    /\ IF TooLarge(ScriptLength(script))
       THEN /\ result' = [commands |-> <<>>, errors |-> <<SizeError>>]
            /\ pc' = "done"
       ELSE /\ pc' = "main"
            /\ UNCHANGED result
    /\ i' = 0
    /\ state' = NewParserState
    /\ UNCHANGED <<script, ambient, loop, visited, invoked, calls, worker, app>>

\* the statement of a line that is neither FOR nor skipped
TopLevel(line, lineNumber, st) ==
    IF Command(line) = Chars("SET")
    THEN With([subCommand \in {SecondPart(line)} |->
             IF subCommand = Chars("VIEW") THEN parseSetView(line, st, lineNumber)
             ELSE IF subCommand = Chars("GRID") THEN parseSetGrid(line, st, lineNumber)
             ELSE IF subCommand = Chars("AXES") THEN parseSetAxes(line, st, lineNumber)
             ELSE st])
    ELSE processLine(line, lineNumber, st, <<>>)

\* (as the main loop would go on, were it left at the first error: past the
\* last line)
LeftOnError(idx, st) ==
    [pc |-> "main",
     i |-> IF st.errors # <<>> THEN Len(Lines(script)) ELSE idx + 1]

\* where the main loop goes on after the statement at index idx, which left
\* the ParserState st: the next line, whatever the statement recorded
AfterLine(idx, st) == [pc |-> "main", i |-> idx + 1]

\* the main loop has dealt with the line at index i, which left st
Statement(st) ==
    /\ state' = st
    /\ \E after \in {AfterLine(i, st)} : pc' = after.pc /\ i' = after.i
    /\ visited' = visited \cup {i + 1}
    /\ UNCHANGED loop

\* the ForLoop for is about to iterate over the lines up to nextIndex
EnterLoop(for, nextIndex) ==
    /\ pc' = "loop"
    /\ loop' = [variable |-> for.variable, start |-> for.start,
                end |-> for.end, step |-> for.step,
                val |-> for.start, iterations |-> 0,
                bodyLines |-> BodyLines(Lines(script), i, nextIndex),
                nextIndex |-> nextIndex, line |-> LineNumber(i)]
    /\ visited' = visited \cup ((i + 1)..(nextIndex + 1))
    /\ UNCHANGED <<i, state>>

\* one pass of the main loop, up to the start of a FOR loop's iterations
MainStep ==
    /\ pc = "main"
    /\ i < Len(Lines(script))
    /\ \E line \in {CleanLine(Lines(script)[i + 1])} :
          IF Skipped(line)
          THEN /\ i' = i + 1
               /\ visited' = visited \cup {i + 1}
               /\ UNCHANGED <<pc, loop, state>>
          ELSE IF Command(line) # Chars("FOR")
          THEN Statement(TopLevel(line, LineNumber(i), state))
          ELSE \E for \in {parseFor(line)} :
                  IF ~for.ok
                  THEN Statement(addError(state, LineNumber(i),
                                          Msg("Invalid FOR loop syntax")))
                  ELSE \E nextIndex \in {FindNext(Lines(script), i, for.variable)} :
                          IF nextIndex = -1
                          THEN Statement(addError(state, LineNumber(i),
                                                  [kind |-> "Missing NEXT",
                                                   variable |-> for.variable]))
                          ELSE EnterLoop(for, nextIndex)
    /\ ambient' = state'.global
    /\ UNCHANGED <<script, result, invoked, calls, worker, app>>

\* (as the passes would be limited, were they compared with the limit of
\* another check)
OverOtherLimit(iterations) == iterations > MAX_EXPR_LENGTH

\* (as the passes would be limited, were they counted after the comparison)
OverLimitCountedAfter(iterations) == iterations - 1 > MAX_LOOP_ITERATIONS

\* ++iterations > MAX_LOOP_ITERATIONS
OverLimit(iterations) == iterations > MAX_LOOP_ITERATIONS

\* (as the loop would go on, were its end left out)
ContinuesBelow(val, end) == ~NumLe(end, val)

\* val <= loop.end
Continues(val, end) == NumLe(val, end)

\* One test of the condition of the FOR loop lp and what follows it: the
\* exit, or the error and the break, or the pass over the body and the
\* step.  ls is val, iterations and the ParserState, and whether the loop is
\* left.
Pass(lp, ls) ==
    IF ~Continues(ls.val, lp.end) THEN [ls EXCEPT !.exit = TRUE]
    ELSE IF OverLimit(ls.iterations + 1)
    THEN [ls EXCEPT
            !.iterations = @ + 1,
            !.st = addError(@, lp.line,
                            [kind |-> "FOR loop exceeded iterations",
                             max |-> MAX_LOOP_ITERATIONS, variable |-> lp.variable,
                             val |-> ls.val, start |-> lp.start,
                             end |-> lp.end, step |-> lp.step]),
            !.exit = TRUE]
    ELSE [ls EXCEPT
            !.iterations = @ + 1,
            !.st = RunBody(lp.bodyLines, 1, @, lp.variable :> ls.val),
            !.val = NumAdd(@, lp.step)]

\* the tests lo..hi of a batch, one after the other, up to the exit
RECURSIVE Passes(_, _, _, _)
Passes(lp, lo, hi, ls) ==
    IF ls.exit THEN ls
    ELSE IF lo = hi THEN Pass(lp, ls)
    ELSE LET half == Passes(lp, lo, (lo + hi) \div 2, ls)
         IN  Passes(lp, (lo + hi) \div 2 + 1, hi, half)

\* the tests of a loop's condition that one step of the model takes
MaxPasses == 8192

\* the FOR loop goes on: up to MaxPasses tests of its condition, with the
\* passes over the body, and the exit to the line after NEXT (i = nextIndex,
\* then i++)
LoopStep ==
    /\ pc = "loop"
    /\ \E ls \in {Passes(loop, 1, MaxPasses,
                         [val |-> loop.val, iterations |-> loop.iterations,
                          st |-> state, exit |-> FALSE])} :
          /\ state' = ls.st
          /\ IF ls.exit
             THEN /\ pc' = "main"
                  /\ i' = loop.nextIndex + 1
                  /\ loop' = NoLoop
             ELSE /\ loop' = [loop EXCEPT !.val = ls.val,
                                          !.iterations = ls.iterations]
                  /\ UNCHANGED <<pc, i>>
    /\ ambient' = state'.global
    /\ UNCHANGED <<script, visited, result, invoked, calls, worker, app>>

\* the main loop is over: parseG3D returns (errors is <<>> for undefined)
Return ==
    /\ pc = "main"
    /\ i >= Len(Lines(script))
    /\ result' = [commands |-> state.commands, errors |-> state.errors]
    /\ pc' = "done"
    /\ UNCHANGED <<script, ambient, i, loop, visited, state, invoked, calls, worker, app>>

\* ------------------------------------------- the caller of the commands

None == [k |-> "none"]

\* the func of a PLOT3D command, called as func(x, y, n)
Plot3DFunc(cmd, x, y, n, functions) ==
    With([r \in {IF cmd.usesN
        THEN securelyEvaluate(cmd.funcBody.body,
                              Merge(functions, (Chars("X") :> x) @@ (Chars("Y") :> y)
                                               @@ (Chars("N") :> n)),
                              functions, ambient, 0)
        ELSE CallClosure(cmd.func, <<x, y>>, functions, ambient, 0)} |->
            IF r.k = "throw" \/ (r.v.t = "num" /\ isFinite(r.v)) THEN r
            ELSE [r EXCEPT !.v = Int2Num(0)]])

\* the values the caller passes for x, y and n
InvokeArgs == {<<1, 2, 0>>, <<2, 1, 1>>}

\* the renderer calls the function of a returned PLOT3D command
Invoke ==
    /\ pc = "done"
    /\ \E k \in 1..Len(result.commands), a \in InvokeArgs :
          /\ result.commands[k].type = "PLOT3D"
          /\ invoked' = [k |-> "call", cmd |-> k, args |-> a,
                         out |-> Plot3DFunc(result.commands[k], Int2Num(a[1]),
                                            Int2Num(a[2]), Int2Num(a[3]),
                                            state.functions)]
    /\ ambient' = Incremented(ambient, invoked'.out.inc)
    /\ UNCHANGED <<script, pc, i, loop, visited, state, result, calls, worker, app>>

Next == ParseStart \/ MainStep \/ LoopStep \/ Return \/ Invoke

\* ------------------------------------------------------------ the scripts

\* the longest script, in lines
MaxLines == 2

LineCatalog ==
    { Chars("DEF FNZ(X,Y) = X+Y"),
      Chars("DEF FNZ(X,Y) = X<Y"),
      Chars("DEF fnz(x,y) = X+Window"),
      Chars("DEF Fnz(a) = A*2"),
      Chars("FNZ = FNZ + 1"),
      Chars("PLOT3D FNZ(X,Y)"),
      Chars("CIRCLE3D 1,2,3 WITH RADIUS 0.5 COLOR 255,0,0"),
      Chars("CIRCLE3D -,2,3 WITH RADIUS 0.5 COLOR 255,0,0"),
      Chars("PLOT POINT3D 1<2,0,0 COLOR 300,0,0 SIZE 2"),
      Chars("PLOT POINT3D innerWidth,SQRT(4),0 COLOR 255,0,0 SIZE 2"),
      Chars("FOR T=0 TO 2 STEP 1"),
      Chars("NEXT T"),
      Chars("END"),
      Chars("SET FOO ON"),
      Chars("G_VALUE = 2 % 3"),
      Chars("G_VALUE = fnz(1,2)"),
      Chars("10 REM note") }

RECURSIVE SeqsUpTo(_, _)
SeqsUpTo(S, n) ==
    IF n = 0 THEN {<<>>}
    ELSE SeqsUpTo(S, n - 1)
         \cup {Append(q, x) : q \in {r \in SeqsUpTo(S, n - 1) : Len(r) = n - 1}, x \in S}

\* the pad that brings the lines ls to a script of total characters
PadTo(ls, total) == total - (SumLen(ls) + (Len(ls) - 1)) - 1

\* a definition and two continuations of it
TwiceContinued ==
    <<Chars("DEF FNZ(X,Y) = X<Y"), Chars("FNZ = FNZ + 1"), Chars("FNZ = FNZ + X^2")>>

\* a definition with a continuation, then another of the same name, plotted
Redefined ==
    <<Chars("DEF FNZ(X,Y) = X+Y"), Chars("FNZ = FNZ + 1"), Chars("DEF Fnz(a) = A*2"),
      Chars("PLOT3D fnz(x,y)")>>

\* the scripts of up to MaxLines lines of the catalog and two longer ones, as
\* they are and padded to MAX_SCRIPT_SIZE characters and to one more
Scripts ==
    {[lines |-> ls, pad |-> pad] :
        ls \in (SeqsUpTo(LineCatalog, MaxLines) \ {<<>>})
                  \cup {TwiceContinued, Redefined},
        pad \in {0, MAX_SCRIPT_SIZE, MAX_SCRIPT_SIZE + 1}}

Padded(sc) ==
    [sc EXCEPT !.pad = IF @ = 0 THEN 0 ELSE PadTo(sc.lines, @)]

\* the global object: the properties of it the expressions here can name, in
\* two windows and in a host without windows
Ambients ==
    { Chars("innerWidth") :> Int2Num(800) @@ Chars("Infinity") :> PosInf,
      Chars("innerWidth") :> Int2Num(1024) @@ Chars("Infinity") :> PosInf,
      Chars("Infinity") :> PosInf }

\* no service worker is registered, and no App is mounted
NoWorker == [phase |-> "none"]
NoApp == [mounted |-> FALSE]

Begin ==
    /\ pc = "start"
    /\ i = 0
    /\ loop = NoLoop
    /\ visited = {}
    /\ state = NewParserState
    /\ result = None
    /\ invoked = None
    /\ calls = <<>>
    /\ worker = NoWorker
    /\ app = NoApp

Init ==
    /\ script \in {Padded(sc) : sc \in Scripts}
    /\ ambient \in Ambients
    /\ Begin

Spec == Init /\ [][Next]_vars

\* ------------------------------------------------- scripts of FOR loops

PointLine == Chars("PLOT POINT3D T,0,0 COLOR 255,0,0 SIZE 2")
CircleLine == Chars("CIRCLE3D 1,2,3 WITH RADIUS 0.5 COLOR 255,0,0")

\* loops of 10,001 passes and of 10,000
LongLoops ==
    { Chars("FOR T=0 TO 1 STEP 0.0001"),
      Chars("FOR T=1 TO 10000 STEP 1") }

\* loops of 3, 3, 1 and 0 passes
ShortLoops ==
    { Chars("FOR T=0 TO 2 STEP 1"),
      Chars("FOR T=0 TO 1 STEP 0.5"),
      Chars("FOR T=0 TO 0 STEP 1"),
      Chars("FOR T=2 TO 0 STEP 1") }

\* a loop over a point and a circle after it; short loops over other bodies
\* and with nothing after them; and a function that is plotted
LoopScripts ==
    {<<for, PointLine, Chars("NEXT T"), CircleLine>> : for \in LongLoops \cup ShortLoops}
    \cup {<<for>> \o body \o <<Chars("NEXT T")>> \o rest :
            for \in ShortLoops,
            body \in {<<>>, <<PointLine>>, <<PointLine, CircleLine>>,
                      <<Chars("DEF FNZ(X,Y) = X+T")>>},
            rest \in {<<>>, <<Chars("PLOT3D FNZ(X,Y)")>>}}
    \cup {<<Chars("DEF FNZ(X,Y) = X+Y"), Chars("PLOT3D FNZ(X,Y)")>>}

\* a statement that leaves an error, and two SET statements
ErrLine == Chars("PLOT3D FNQ(X,Y)")
GridLine == Chars("SET GRID ON")
ViewLine == Chars("SET VIEW ANGLE 30,60")

\* statements before and after a loop whose body leaves commands and errors
MixedScripts ==
    {<<CircleLine, for, PointLine, ErrLine, CircleLine, Chars("NEXT T"),
       CircleLine, ErrLine>> : for \in ShortLoops}

\* scripts with line labels, blank lines and comments: a loop, a loop of
\* 10,001 passes over nothing, a FOR without NEXT and a FOR without STEP
LabelledLoop ==
    <<Chars("10 REM note"), <<>>, Chars("20 FOR T=0 TO 2 STEP 1"),
      Chars("30 ") \o PointLine, Chars("40 NEXT T ; end of the loop"), <<>>,
      Chars("50 ") \o CircleLine>>

LabelledScripts ==
    { LabelledLoop,
      <<<<>>, Chars("FOR T=0 TO 1 STEP 0.0001"), Chars("NEXT T")>>,
      <<<<>>, Chars("5 FOR T=0 TO 2 STEP 1"), CircleLine>>,
      <<Chars("REM"), Chars("FOR T=0 TO 2"), ErrLine>> }

\* SET statements in the body of a loop and after it
SetScripts ==
    {<<for, GridLine, ViewLine, Chars("NEXT T"), GridLine>> : for \in ShortLoops}

InitLoop ==
    /\ script \in {[lines |-> ls, pad |-> 0] : ls \in LoopScripts}
    /\ ambient = Chars("Infinity") :> PosInf
    /\ Begin

SpecLoop == InitLoop /\ [][Next]_vars

\* plots of functions of the morph parameter, written n and N, and of
\* functions whose arguments are not X and Y in this order
MorphScripts ==
    {<<def, Chars("PLOT3D FNZ(X,Y)")>> :
        def \in { Chars("DEF FNZ(X,Y) = X*Y+n"),
                  Chars("DEF FNZ(X,Y) = X*Y+N"),
                  Chars("DEF FNZ(Y,X) = X-Y+N"),
                  Chars("DEF FNZ(A,B) = A+B+N*2") }}

\* expressions of the domain operators, and of names and comparisons that
\* hold the letters or the sign of one
OperatorScripts ==
    { <<Chars("G_VALUE = 2^3 <> 8 OR 1 = 1")>>,
      <<Chars("G_VALUE = 1 and 0")>>,
      <<Chars("G_VALUE = 1<=2")>>,
      <<Chars("PLOT POINT3D FLOOR(2.5),0,0 COLOR 255,0,0 SIZE 2")>>,
      <<Chars("DEF FNORM(X,Y) = X+Y"), Chars("G_VALUE = FNORM(1,2)")>> }

\* the scripts of loops of a few passes, and of statements around them
\* SET GRID and SET AXES statements that switch a helper on and off
ToggleScripts ==
    { <<Chars("SET GRID ON"), Chars("SET GRID OFF")>>,
      <<Chars("SET GRID OFF"), Chars("SET GRID ON")>>,
      <<Chars("SET AXES ON"), Chars("SET AXES off")>>,
      <<Chars("SET GRID ON"), Chars("SET AXES OFF")>>,
      <<Chars("SET AXES OFF")>> }

\* two plots of FNZ with one body text: with the arguments in another order,
\* and with another function behind the name the body calls
HashScripts ==
    { <<Chars("DEF FNZ(X,Y) = X-Y"), Chars("PLOT3D FNZ(X,Y)"),
        Chars("DEF FNZ(Y,X) = X-Y"), Chars("PLOT3D FNZ(X,Y)")>>,
      <<Chars("DEF FNZ(X,Y) = X-Y"), Chars("PLOT3D FNZ(X,Y)"),
        Chars("DEF FNZ(X,Y) = X-Y"), Chars("PLOT3D FNZ(X,Y)")>>,
      <<Chars("DEF FNZ(X,Y) = X-Y"), Chars("PLOT3D FNZ(X,Y)"),
        Chars("DEF FNZ(X,Y) = Y-X"), Chars("PLOT3D FNZ(X,Y)")>> }

\* the Scene: parsedScene.commands.some(c => c.type === 'SET_GRID' && c.visible)
showGrid(parsedScene) ==
    \E k \in 1..Len(parsedScene.commands) :
        parsedScene.commands[k].type = "SET_GRID" /\ parsedScene.commands[k].visible

\* parsedScene.commands.some(c => c.type === 'SET_AXES' && c.visible)
showAxes(parsedScene) ==
    \E k \in 1..Len(parsedScene.commands) :
        parsedScene.commands[k].type = "SET_AXES" /\ parsedScene.commands[k].visible

InitBlocks ==
    /\ script \in {[lines |-> ls, pad |-> 0] :
                      ls \in {s \in LoopScripts : s[1] \notin LongLoops}
                                \cup MixedScripts \cup LabelledScripts
                                \cup SetScripts \cup ToggleScripts \cup HashScripts
                                \cup MorphScripts
                                \cup OperatorScripts}
    /\ ambient = Chars("Infinity") :> PosInf
    /\ Begin

SpecBlocks == InitBlocks /\ [][Next]_vars


\* ------------------------------------------------ one call after another

\* the calls of parseG3D that one page makes
MaxCalls == 3

\* a point at the width of the window, which the expression increments
CountLine == Chars("PLOT POINT3D innerWidth++,0,0 COLOR 255,0,0 SIZE 2")

\* the scripts a page parses one after another: a definition, a plot of the
\* function it defines without the definition and with it, a circle and an
\* error, and the point at the width alone and in a loop
CallScripts ==
    { <<Chars("DEF FNZ(X,Y) = X+Y")>>,
      <<Chars("PLOT3D FNZ(X,Y)")>>,
      <<Chars("DEF FNZ(X,Y) = X+Y"), Chars("PLOT3D FNZ(X,Y)")>>,
      <<CircleLine, ErrLine>>,
      <<CountLine>>,
      <<Chars("FOR T=0 TO 1 STEP 1"), CountLine, Chars("NEXT T")>> }

\* parseG3D has returned and is called again, in the same realm: what the
\* former call returned is kept by its caller
Again ==
    /\ pc = "done"
    /\ Len(calls) + 1 < MaxCalls
    /\ calls' = Append(calls, [script |-> script, result |-> result])
    /\ script' \in {[lines |-> ls, pad |-> 0] : ls \in CallScripts}
    /\ pc' = "start"
    /\ i' = 0
    /\ loop' = NoLoop
    /\ visited' = {}
    /\ result' = None
    /\ invoked' = None
    /\ UNCHANGED <<ambient, state, worker, app>>

NextCalls == Next \/ Again

InitCalls ==
    /\ script \in {[lines |-> ls, pad |-> 0] : ls \in CallScripts}
    /\ ambient = Chars("innerWidth") :> Int2Num(800) @@ Chars("Infinity") :> PosInf
    /\ Begin

SpecCalls == InitCalls /\ [][NextCalls]_vars

\* ------------------------------------- loops and calls that would not end

\* loops whose variable never passes the end (step 0, a step down, a step
\* that is no number), a loop of 20,000 values and one of three
EndlessLoops ==
    { Chars("FOR T=0 TO 1 STEP 0"),
      Chars("FOR T=0 TO 1 STEP -1"),
      Chars("FOR T=1 TO 1 STEP -0.5"),
      Chars("FOR T=1 TO 20000 STEP 1"),
      Chars("FOR T=0 TO 1 STEP e"),
      Chars("FOR T=0 TO 2 STEP 1") }

\* a function that calls itself and two that call each other
SelfCall == Chars("G_VALUE = FNZ(1,2)")
MutualCall == Chars("PLOT POINT3D FNA(1,2),0,0 COLOR 255,0,0 SIZE 2")
Recursions ==
    { <<>>,
      <<Chars("DEF FNZ(X,Y) = FNZ(X,Y)+1"), SelfCall>>,
      <<Chars("DEF FNZ(X,Y) = FNZ(X,Y)+1"), Chars("PLOT3D FNZ(X,Y)")>>,
      <<Chars("DEF FNA(X,Y) = FNB(Y,X)"), Chars("DEF FNB(X,Y) = FNA(X,Y)"),
        MutualCall>> }

InitHalts ==
    /\ script \in {[lines |-> <<for, Chars("NEXT T")>> \o rest, pad |-> 0] :
                      for \in EndlessLoops, rest \in Recursions}
    /\ ambient = Chars("Infinity") :> PosInf
    /\ Begin

SpecHalts == InitHalts /\ [][Next]_vars

\* --------------------------------------------------- the service worker

CACHE_NAME == Chars("graphforge-core-v2")

urlsToCache ==
    << Chars("/"), Chars("/index.html"), Chars("/index.tsx"), Chars("/App.tsx"),
       Chars("/types.ts"), Chars("/lib/g3dParser.ts"),
       Chars("/components/ControlSuite.tsx"),
       Chars("/components/VisualizationCanvas.tsx"),
       Chars("/components/Scene.tsx"), Chars("/lib/svgExport.ts"),
       Chars("/vite.svg"), Chars("/manifest.json"), Chars("/metadata.json"),
       Chars("https://cdn.tailwindcss.com") >>

\* the origin the worker is served from, which its relative URLs resolve against
Origin == Chars("https://graphforge.example")

\* the url of new Request(url): a path is resolved against the origin, and an
\* absolute URL without a path gets the path /
RequestUrl(url) ==
    IF startsWith(url, <<"/">>) THEN Origin \o url
    ELSE IF Len(Split(url, "/")) = 3 THEN url \o <<"/">>
    ELSE url

\* new URL(url).hostname: what stands between the // and the next /, without
\* a port
Hostname(url) == Split(Split(url, "/")[3], ":")[1]

\* a Response with its status; via tells where its body is from: the
\* network now, or a cache that a former version of the worker filled
Response(status, via) == [status |-> status, via |-> via]

\* a Cache: its name and the responses stored under the URLs of their requests
NewCache(cacheName) == [name |-> cacheName, entries |-> <<>>]

\* caches.open(cacheName): the storage with the cache, made if it is not there
Opened(storage, cacheName) ==
    IF \E k \in 1..Len(storage) : storage[k].name = cacheName THEN storage
    ELSE Append(storage, NewCache(cacheName))

\* cache.put(request, response) on the cache cacheName of the storage
Put(storage, cacheName, url, response) ==
    [k \in 1..Len(Opened(storage, cacheName)) |->
        IF Opened(storage, cacheName)[k].name = cacheName
        THEN [Opened(storage, cacheName)[k] EXCEPT
                 !.entries = Merge(@, url :> response)]
        ELSE Opened(storage, cacheName)[k]]

\* cache.addAll(requests), every request answered with 200
RECURSIVE AddAll(_, _, _, _)
AddAll(storage, cacheName, urls, k) ==
    IF k > Len(urls) THEN storage
    ELSE AddAll(Put(storage, cacheName, RequestUrl(urls[k]),
                    Response(200, "network")),
                cacheName, urls, k + 1)

NoResponse == [status |-> -1, via |-> "none"]

\* caches.match(request): the response of the first cache, in the order of
\* their creation, that holds the URL; NoResponse for undefined
Match(storage, url) ==
    IF \E k \in 1..Len(storage) : url \in DOMAIN storage[k].entries
    THEN storage[CHOOSE k \in 1..Len(storage) :
                    /\ url \in DOMAIN storage[k].entries
                    /\ \A j \in 1..(k - 1) : url \notin DOMAIN storage[j].entries
                ].entries[url]
    ELSE NoResponse

\* (as the whitelist would be, did it keep every cache of the application)
WhitelistedByPrefix(cacheName) == startsWith(cacheName, Chars("graphforge-core"))

\* cacheWhitelist.indexOf(cacheName) !== -1
Whitelisted(cacheName) == cacheName \in {CACHE_NAME}

\* the requests of the pages the worker controls
Requests ==
    { [method |-> "GET", url |-> Origin \o Chars("/"), mode |-> "navigate"],
      [method |-> "GET", url |-> Origin \o Chars("/lib/g3dParser.ts"), mode |-> "cors"],
      [method |-> "GET", url |-> Origin \o Chars("/assets/index.js"), mode |-> "cors"],
      [method |-> "POST", url |-> Origin \o Chars("/assets/index.js"), mode |-> "cors"],
      [method |-> "GET", url |-> Chars("https://cdn.tailwindcss.com/"), mode |-> "no-cors"],
      [method |-> "GET", url |-> Chars("https://unpkg.com/three@0.180.0/build/three.module.js"),
                         mode |-> "cors"],
      [method |-> "GET", url |-> Chars("https://aistudiocdn.com/three@^0.180.0"),
                         mode |-> "cors"],
      [method |-> "GET", url |-> Chars("https://cdn.skypack.dev/three"),
                         mode |-> "no-cors"] }

NetworkError == [status |-> -1, via |-> "error"]

\* what fetch(request) can settle with: a network error, the opaque response
\* (status 0) of a no-cors request to another origin, or else a response
\* with the status of the server
Network(request) ==
    {NetworkError} \cup
    IF request.mode = "no-cors" /\ Hostname(request.url) # Hostname(Origin)
    THEN {Response(0, "network")}
    ELSE {Response(200, "network"), Response(404, "network")}

\* the storage a former version of the worker left: its cache with the
\* page and Three.js of the CDN, and the cache of another script
OldCache ==
    [name |-> Chars("graphforge-core-v1"),
     entries |-> (Origin \o Chars("/index.html")) :> Response(200, "old")
                 @@ Chars("https://aistudiocdn.com/three@^0.180.0")
                        :> Response(200, "old")]
OtherCache ==
    [name |-> Chars("workbox-precache"),
     entries |-> (Origin \o Chars("/assets/index.js")) :> Response(200, "old")]
Storages == { <<>>, <<OldCache>>, <<OldCache, OtherCache>>,
              <<NewCache(CACHE_NAME), OldCache>> }

\* the worker is registered: its script has run and its listeners are added
Registered ==
    worker \in {[phase |-> "parsed", caches |-> storage, deleted |-> {},
                 request |-> None, served |-> NoResponse] : storage \in Storages}

\* the install listener: the cache is opened and addAll adds every URL of
\* urlsToCache or, when a request fails, none; the failure is caught
Install ==
    /\ worker.phase = "parsed"
    /\ \E ok \in BOOLEAN :
          worker' = [worker EXCEPT
                        !.phase = "installed",
                        !.caches = IF ok
                                   THEN AddAll(Opened(@, CACHE_NAME), CACHE_NAME,
                                               urlsToCache, 1)
                                   ELSE Opened(@, CACHE_NAME)]
    /\ UNCHANGED <<parser, app>>

\* the activate listener: every cache that is not whitelisted is deleted
Activate ==
    /\ worker.phase = "installed"
    /\ worker' = [worker EXCEPT
                     !.phase = "activated",
                     !.caches = SelectSeq(@, LAMBDA c : Whitelisted(c.name)),
                     !.deleted = {worker.caches[k].name :
                                     k \in {j \in 1..Len(worker.caches) :
                                               ~Whitelisted(worker.caches[j].name)}}]
    /\ UNCHANGED <<parser, app>>

\* what the fetch listener leaves for a request the network answers with net:
\* the response it serves (NoResponse when it leaves the request to the
\* browser) and the storage
Fetched(storage, request, net) ==
    IF request.method # "GET" THEN [served |-> NoResponse, caches |-> storage]
    ELSE IF Hostname(request.url) = Chars("cdn.tailwindcss.com")
    THEN IF Match(storage, request.url) # NoResponse
         THEN [served |-> Match(storage, request.url), caches |-> storage]
         ELSE IF net = NetworkError THEN [served |-> net, caches |-> storage]
         ELSE [served |-> net, caches |-> Put(storage, CACHE_NAME, request.url, net)]
    ELSE IF request.mode = "navigate"
    THEN IF net # NetworkError THEN [served |-> net, caches |-> storage]
         ELSE [served |-> Match(storage, RequestUrl(Chars("/index.html"))),
               caches |-> storage]
    ELSE IF Match(storage, request.url) # NoResponse
         THEN [served |-> Match(storage, request.url), caches |-> storage]
         ELSE IF net = NetworkError \/ net.status # 200
         THEN [served |-> net, caches |-> storage]
         ELSE [served |-> net, caches |-> Put(storage, CACHE_NAME, request.url, net)]

\* the fetch listener, for a request of a page and what the network answers
Fetch ==
    /\ worker.phase = "activated"
    /\ \E request \in Requests :
          \E net \in Network(request) :
             worker' = [worker EXCEPT
                           !.request = request,
                           !.served = Fetched(worker.caches, request, net).served,
                           !.caches = Fetched(worker.caches, request, net).caches]
    /\ UNCHANGED <<parser, app>>

NextWorker == Install \/ Activate \/ Fetch

\* parseG3D is not being called
NotCalled ==
    /\ script = [lines |-> <<>>, pad |-> 0]
    /\ ambient = Chars("Infinity") :> PosInf
    /\ pc = "idle"
    /\ i = 0
    /\ loop = NoLoop
    /\ visited = {}
    /\ state = NewParserState
    /\ result = None
    /\ invoked = None
    /\ calls = <<>>

InitWorker == NotCalled /\ Registered /\ app = NoApp

SpecWorker == InitWorker /\ [][NextWorker]_vars

\* ------------------------------------------------------------- the App

\* the scripts of the editor: a scene, a circle before a statement in error,
\* a statement in error alone, a definition with its plot, the plot alone,
\* and a loop of three points
AppScripts ==
    { <<Chars("SET GRID ON")>>,
      <<CircleLine, ErrLine>>,
      <<ErrLine>>,
      <<Chars("DEF FNZ(X,Y) = X+Y"), Chars("PLOT3D FNZ(X,Y)")>>,
      <<Chars("PLOT3D FNZ(X,Y)")>>,
      <<Chars("FOR T=0 TO 2 STEP 1"), PointLine, Chars("NEXT T")>> }

\* the list of errors the App holds: null, or a list
Null == [null |-> TRUE, list |-> <<>>]
List(errors) == [null |-> FALSE, list |-> errors]

\* the App is mounted: useState of script, isRunning, errors and parsedScene
\* (None for null); running tells that handleParseAndRun is being run
Mounted ==
    app \in {[mounted |-> TRUE, script |-> sc, isRunning |-> FALSE,
              errors |-> Null, parsedScene |-> None, running |-> FALSE] :
                sc \in AppScripts}

\* setScript: the editor changes the script
setScript ==
    /\ app.mounted
    /\ ~app.running
    /\ \E sc \in AppScripts \ {app.script} : app' = [app EXCEPT !.script = sc]
    /\ UNCHANGED <<parser, worker>>

\* Parse & Render is clicked: handleParseAndRun calls parseG3D(script)
ParseAndRender ==
    /\ app.mounted
    /\ ~app.running
    /\ app' = [app EXCEPT !.running = TRUE]
    /\ script' = [lines |-> app.script, pad |-> 0]
    /\ pc' = "start"
    /\ i' = 0
    /\ loop' = NoLoop
    /\ visited' = {}
    /\ result' = None
    /\ invoked' = None
    /\ UNCHANGED <<ambient, state, calls, worker>>

\* (as the states would be set, were setErrors(null) left out)
AfterParseErrorsKept(a, res) ==
    IF res.errors # <<>>
    THEN [a EXCEPT !.errors = List(res.errors), !.isRunning = FALSE,
                   !.parsedScene = [commands |-> <<>>]]
    ELSE [a EXCEPT !.parsedScene = res, !.isRunning = TRUE]

\* setErrors(null), and what handleParseAndRun sets for the result res
AfterParse(a, res) ==
    IF res.errors # <<>>
    THEN [a EXCEPT !.errors = List(res.errors), !.isRunning = FALSE,
                   !.parsedScene = [commands |-> <<>>]]
    ELSE [a EXCEPT !.errors = Null, !.parsedScene = res, !.isRunning = TRUE]

\* parseG3D has returned to handleParseAndRun, which sets the states
handleParseAndRun ==
    /\ app.mounted
    /\ app.running
    /\ pc = "done"
    /\ app' = [AfterParse(app, result) EXCEPT !.running = FALSE]
    /\ UNCHANGED <<parser, worker>>

\* VisualizationCanvas: isRunning && parsedScene ? <Canvas> : the placeholder
CanvasShown(a) == a.isRunning /\ a.parsedScene # None

NextApp ==
    setScript \/ ParseAndRender \/ ParseStart \/ MainStep \/ LoopStep \/ Return
        \/ handleParseAndRun

InitApp == NotCalled /\ worker = NoWorker /\ Mounted

SpecApp == InitApp /\ [][NextApp]_vars

\* ------------------------------------------------------------ properties

\* parseG3D has returned for a script within the size cap
Parsed == pc = "done" /\ ScriptLength(script) <= MAX_SCRIPT_SIZE

\* the errors of errs with a message of kind kind
OfKind(errs, kind) == SelectSeq(errs, LAMBDA e : e.message.kind = kind)

\* the entries of a list of errors or of commands that are tagged with line n
OfLine(entries, n) == SelectSeq(entries, LAMBDA e : e.line = n)

\* C1: a script longer than MAX_SCRIPT_SIZE, be it by one character, gives
\* no command and the one error of the size check, and no line of it is
\* taken up; a script of MAX_SCRIPT_SIZE characters or fewer is not rejected:
\* every line of it is taken up and what the statements left is returned.
SizeCap ==
    pc = "done" =>
        IF ScriptLength(script) > MAX_SCRIPT_SIZE
        THEN /\ result = [commands |-> <<>>, errors |-> <<SizeError>>]
             /\ visited = {}
             /\ state = NewParserState
        ELSE /\ OfKind(result.errors, "Script too large") = <<>>
             /\ visited = 1..Len(Lines(script))
             /\ result.commands = state.commands

\* a script of MAX_SCRIPT_SIZE + 1 characters, two statements among them,
\* was rejected
SizeCapWitness ==
    /\ pc = "done"
    /\ ScriptLength(script) = MAX_SCRIPT_SIZE + 1
    /\ Len(script.lines) = 2
    /\ Command(script.lines[1]) = Chars("CIRCLE3D")
    /\ result.errors = <<SizeError>>

\* C2: for a script within the size cap the main loop takes up the lines in
\* their order whatever errors the statements record: the lines up to its
\* index have all been taken up, and when parseG3D returns every line has
\* been and the commands and the errors of all of them are returned.
ErrorsNeverStop ==
    /\ pc = "main" => visited = 1..i
    /\ pc = "loop" => visited = 1..(loop.nextIndex + 1)
    /\ Parsed => /\ visited = 1..Len(Lines(script))
                 /\ result = [commands |-> state.commands, errors |-> state.errors]

\* an error was recorded for the first line and a command for the second
ErrorsNeverStopWitness ==
    /\ Parsed
    /\ OfLine(result.errors, 1) # <<>>
    /\ OfLine(result.commands, 2) # <<>>

\* the FOR loop of the first line of the script, and whether its range takes
\* more than MAX_LOOP_ITERATIONS passes: its first MAX_LOOP_ITERATIONS + 1
\* values are within it
FirstLoop == parseFor(CleanLine(script.lines[1]))
TakesMore(for) ==
    /\ NumLe(for.start, for.end)
    /\ NumLe(NumAdd(for.start, NumMul(Int2Num(MAX_LOOP_ITERATIONS), for.step)),
             for.end)

\* the script is a FOR loop over one PLOT POINT3D of the loop variable
LoopOverPoint ==
    /\ Len(script.lines) >= 3
    /\ Command(script.lines[1]) = Chars("FOR")
    /\ FirstLoop.ok
    /\ script.lines[2] = PointLine
    /\ script.lines[3] = Chars("NEXT ") \o FirstLoop.variable

\* the points of the first MAX_LOOP_ITERATIONS passes of the loop for, one
\* for each value of its variable
IsPointsOf(points, for) ==
    /\ Len(points) = MAX_LOOP_ITERATIONS
    /\ \A k \in 1..Len(points) :
          /\ points[k].type = "PLOT_POINT3D"
          /\ points[k].position.x
                = NumAdd(for.start, NumMul(Int2Num(k - 1), for.step))

\* C3: a FOR loop with its NEXT whose range takes more than 10,000 passes is
\* left after exactly 10,000 passes over its body: with one PLOT POINT3D in
\* the body, when the loop is left the commands are the 10,000 points of
\* these passes, there is exactly one error, of the loop limit and tagged
\* with the line of the FOR, and the main loop is at the line after NEXT (no
\* line of the body is taken up as a statement of its own); the points and
\* the error are returned, before the command of the line after NEXT.
LoopOverflowHalts ==
    (LoopOverPoint /\ TakesMore(FirstLoop)) =>
        /\ pc = "main" => i = 0 \/ i >= 3
        /\ (pc = "main" /\ i >= 3) \/ pc = "done" =>
              /\ IsPointsOf(OfLine(state.commands, 2), FirstLoop)
              /\ SubSeq(state.commands, 1, MAX_LOOP_ITERATIONS)
                    = OfLine(state.commands, 2)
              /\ Len(OfKind(state.errors, "FOR loop exceeded iterations")) = 1
              /\ state.errors = OfLine(state.errors, 1)
        /\ pc = "done" =>
              /\ result = [commands |-> state.commands, errors |-> state.errors]
              /\ visited = 1..Len(script.lines)
              /\ Len(script.lines) = 4 /\ script.lines[4] = CircleLine
                    => /\ Len(result.commands) = MAX_LOOP_ITERATIONS + 1
                       /\ result.commands[MAX_LOOP_ITERATIONS + 1].type = "CIRCLE3D"
                       /\ result.commands[MAX_LOOP_ITERATIONS + 1].line = 4

\* the loop of 10,001 passes was left with the error after 10,000 points,
\* for the line after NEXT
LoopOverflowHaltsWitness ==
    /\ pc = "main"
    /\ i = 3
    /\ LoopOverPoint
    /\ TakesMore(FirstLoop)
    /\ Len(state.commands) = MAX_LOOP_ITERATIONS
    /\ Len(state.errors) = 1

\* C4: a FOR of which no later line is the NEXT adds exactly one error of
\* the missing NEXT, and none of the lines after it is executed: the result
\* holds no command of them.
MissingNextSkipsBlock ==
    (/\ Parsed
     /\ Command(CleanLine(script.lines[1])) = Chars("FOR")
     /\ FirstLoop.ok
     /\ FindNext(Lines(script), 0, FirstLoop.variable) = -1) =>
        /\ Len(OfKind(result.errors, "Missing NEXT")) = 1
        /\ result.commands = <<>>

\* a line whose first word is none of a statement
UnknownKeyword(line) ==
    \/ Command(line) \in {Chars("END"), Chars("CONTOUR"), Chars("COLOR")}
    \/ /\ Command(line) = Chars("SET")
       /\ SecondPart(line) \notin {Chars("VIEW"), Chars("GRID"), Chars("AXES")}
    \/ /\ Command(line) = Chars("PLOT")
       /\ SecondPart(line) # Chars("POINT3D")

\* C5: every line whose first word is none of a statement adds exactly one
\* error tagged with the line, and no command.
UnknownKeywordIsAnError ==
    Parsed =>
        \A n \in 1..Len(script.lines) :
            UnknownKeyword(CleanLine(script.lines[n])) =>
                /\ Len(OfLine(result.errors, n)) = 1
                /\ OfLine(result.commands, n) = <<>>

\* expr passes the two checks of securelyEvaluate
PassesBothChecks(expr) ==
    /\ SAFE_EXPRESSION_REGEX(expr)
    /\ \A k \in 1..Len(FORBIDDEN_KEYWORDS) :
          ~includes(toLowerCase(expr), FORBIDDEN_KEYWORDS[k])

EvaluatorIsPure ==
    \A expr \in state.evaluated :
        securelyEvaluate(expr, state.functions, state.functions, ambient, 0)
            = securelyEvaluate(expr, state.functions, state.functions, <<>>, 0)

\* C8: an expression of the script that is rejected or cannot be evaluated
\* is an error of the result: when the function of a returned PLOT3D command
\* throws as it is called, parseG3D has returned an error of that kind.
FailuresAreReturned ==
    (invoked # None /\ invoked.out.k = "throw") =>
        OfKind(result.errors, invoked.out.m.kind) # <<>>

\* the values a function is called with, to compare two functions
SampleArgs == {<<1, 2>>, <<2, 1>>, <<0, 0>>}
SampleValues(a) == [k \in 1..Len(a) |-> Int2Num(a[k])]

\* line is the continuation F = F + addition
IsContinuation(line, F) ==
    /\ startsWith(toUpperCase(line), Chars("FN"))
    /\ ~MatchRegex(line, simpleDefRegex).ok
    /\ MatchRegex(line, continuationRegex).ok
    /\ toUpperCase(MatchRegex(line, continuationRegex).groups[1]) = F

\* the value of the text expr taken as an expression of its own
Alone(expr, context, funcs) ==
    IF ~PassesBothChecks(expr) \/ ParseJs(jsifyExpression(expr)).r # "ok"
    THEN Thr(SyntaxErr, {})
    ELSE Ev(ParseJs(jsifyExpression(expr)).ast, context, funcs, ambient, 1)

\* x + y of two outcomes, as a function returns it
SumOf(x, y) ==
    IF x.k = "throw" \/ y.k = "throw" THEN Thr(SyntaxErr, {})
    ELSE Returned(<<>>, Applied(ApplyBin("+", x.v, y.v), {}))

\* two outcomes are one: both throw, or both are the same value
SameOutcome(x, y) == x.k = y.k /\ (x.k = "val" => x.v = y.v)

\* the function f of the table funcs returns body + addition for the
\* arguments a, the two taken each as an expression of its own
ReturnsSum(f, funcs, body, addition, a) ==
    SameOutcome(CallClosure(f, SampleValues(a), funcs, ambient, 0),
                SumOf(Alone(body, Merge(funcs, Scope(f, SampleValues(a))), funcs),
                      Alone(addition, Merge(funcs, Scope(f, SampleValues(a))),
                            funcs)))

\* the statement at index i is the continuation F = F + e, and it leaves F
\* with the arguments it had and returning what its body returned plus e
ContinuationStep(F) ==
    (/\ pc = "main"
     /\ i < Len(Lines(script))
     /\ IsContinuation(CleanLine(Lines(script)[i + 1]), F)) =>
        /\ F \in DOMAIN state'.functionBodies
        /\ state'.functionBodies[F].args = state.functionBodies[F].args
        /\ state'.functions[F].args = state.functionBodies[F].args
        /\ state'.functions[F].body = state'.functionBodies[F].body
        /\ \A a \in SampleArgs :
              ReturnsSum(state'.functions[F], state'.functions,
                         state.functionBodies[F].body,
                         MatchRegex(CleanLine(Lines(script)[i + 1]),
                                    continuationRegex).groups[2],
                         a)

\* C9: a continuation F = F + e of a function F that is defined leaves F with
\* the argument list it had, and F then returns, for the same arguments,
\* the value of its former body plus the value of e, each evaluated as an
\* expression of its own (so the comparison of a body X<Y is made before the
\* addition).  Every further continuation adds to the body the one before
\* it left.
ContinuationAdds ==
    [][\A F \in DOMAIN state.functionBodies : ContinuationStep(F)]_vars

\* DEF FNZ(X,Y) = X<Y and FNZ = FNZ + 1 were executed
ContinuationAddsWitness ==
    /\ pc = "done"
    /\ Chars("FNZ") \in DOMAIN state.functionBodies
    /\ state.functionBodies[Chars("FNZ")].body = Chars("(X<Y) + (1)")
    /\ CallClosure(state.functions[Chars("FNZ")], SampleValues(<<1, 2>>),
                   state.functions, ambient, 0).v = Int2Num(2)

\* the name a continuation line gives the function: the text before "="
NameBefore(line) == toUpperCase(trim(Split(line, "=")[1]))

\* the statement at index i is a continuation of a function that is not
\* defined
UndefinedContinuation ==
    /\ pc = "main"
    /\ i < Len(Lines(script))
    /\ IsContinuation(CleanLine(Lines(script)[i + 1]),
                      NameBefore(CleanLine(Lines(script)[i + 1])))
    /\ NameBefore(CleanLine(Lines(script)[i + 1])) \notin DOMAIN state.functionBodies

\* C10: a continuation F = F + e of a name F that is not defined adds exactly
\* one error, that F is not defined before the continuation, tagged with the
\* line; it adds no command and leaves the table of functions and the bodies
\* as they were, so F is still not defined.
UndefinedContinuationIsAnError ==
    [][UndefinedContinuation =>
          /\ state'.errors
                = Append(state.errors,
                         [line |-> i + 1,
                          message |->
                              [kind |-> "Function not defined before continuation",
                               name |-> NameBefore(CleanLine(Lines(script)[i + 1]))]])
          /\ state'.commands = state.commands
          /\ state'.functions = state.functions
          /\ state'.functionBodies = state.functionBodies
          /\ pc' = "main" /\ i' = i + 1]_vars

\* FNZ = FNZ + 1 and then PLOT3D FNZ(X,Y): two errors, the second that FNZ
\* is not defined for PLOT3D, and no command
UndefinedContinuationIsAnErrorWitness ==
    /\ Parsed
    /\ script.lines = <<Chars("FNZ = FNZ + 1"), Chars("PLOT3D FNZ(X,Y)")>>
    /\ result.commands = <<>>
    /\ Len(result.errors) = 2
    /\ result.errors[1].message.kind = "Function not defined before continuation"
    /\ result.errors[2].message.kind = "Function not defined for PLOT3D"

\* the cleaned line that the main loop is about to take up at top level
Current == CleanLine(Lines(script)[i + 1])
AtStatement == pc = "main" /\ i < Len(Lines(script)) /\ ~Skipped(Current)

\* line goes to parseFunctionDefinition and is a DEF name(args) = body
IsDefinition(line) ==
    /\ \/ Command(line) = Chars("DEF")
       \/ startsWith(Command(line), Chars("FN")) /\ includes(line, <<"=">>)
    /\ MatchRegex(line, simpleDefRegex).ok

\* the argument names a DEF writes between the parentheses: the texts between
\* the commas without the blanks around them, in upper case, the empty left out
WrittenArgs(text) ==
    SelectSeq([k \in 1..Len(Split(text, ",")) |->
                  toUpperCase(trim(Split(text, ",")[k]))],
              LAMBDA a : Len(a) > 0)

\* every name of the registry is in upper case, and the function called by
\* it is the one of the arguments and the body stored for it
OneDefinitionPerName ==
    \A F \in DOMAIN state.functionBodies :
        /\ F = toUpperCase(F)
        /\ F \in DOMAIN state.functions
        /\ state.functions[F]
              = [t |-> "closure", args |-> state.functionBodies[F].args,
                 body |-> state.functionBodies[F].body]

\* a DEF at top level leaves under the upper-cased name the arguments and the
\* body it writes, whatever was stored, and the other names as they were
DefinitionStep ==
    (AtStatement /\ IsDefinition(Current)) =>
        LET match == MatchRegex(Current, simpleDefRegex)
            F == toUpperCase(match.groups[1])
        IN  /\ DOMAIN state'.functionBodies = DOMAIN state.functionBodies \cup {F}
            /\ state'.functionBodies[F]
                  = [args |-> WrittenArgs(match.groups[2]), body |-> match.groups[3]]
            /\ \A G \in DOMAIN state.functionBodies \ {F} :
                  state'.functionBodies[G] = state.functionBodies[G]
            /\ state'.commands = state.commands
            /\ state'.errors = state.errors

\* a PLOT3D at top level of a name that is registered gives the command of
\* the definition stored for the upper-cased name
PlotStep ==
    (/\ AtStatement
     /\ Command(Current) = Chars("PLOT3D")
     /\ MatchRegex(Current, plot3DRegex).ok
     /\ toUpperCase(MatchRegex(Current, plot3DRegex).groups[1])
           \in DOMAIN state.functionBodies) =>
        LET F == toUpperCase(MatchRegex(Current, plot3DRegex).groups[1])
        IN  /\ Len(state'.commands) = Len(state.commands) + 1
            /\ state'.commands[Len(state'.commands)].type = "PLOT3D"
            /\ state'.commands[Len(state'.commands)].funcBody = state.functionBodies[F]
            /\ state'.commands[Len(state'.commands)].func = state.functions[F]
            /\ state'.commands[Len(state'.commands)].funcHash
                  = hashString(state.functionBodies[F].body)

\* C11: the registry holds one definition for an upper-cased name at every
\* point of a parse; a DEF of a name that is registered, in any letter case,
\* replaces the arguments and the body stored for it, continuations and
\* all, and a PLOT3D after it plots the definition then stored.
LatestDefinitionWins ==
    []OneDefinitionPerName /\ [][DefinitionStep /\ PlotStep]_vars

\* DEF FNZ(X,Y) = X+Y, its continuation, DEF Fnz(a) = A*2 and PLOT3D fnz(x,y):
\* the function plotted doubles its first argument
LatestDefinitionWinsWitness ==
    /\ Parsed
    /\ script.lines = Redefined
    /\ state.functionBodies[Chars("FNZ")] = [args |-> <<<<"A">>>>, body |-> Chars("A*2")]
    /\ Len(result.commands) = 1
    /\ result.commands[1].funcHash = hashString(Chars("A*2"))
    /\ invoked # None
    /\ invoked.args = <<1, 2, 0>>
    /\ invoked.out.k = "val"
    /\ invoked.out.v = Int2Num(2)

\* C12: a function that DEF registers can be called in an expression under
\* any letter case: when FNZ is registered and returns a value for (1, 2),
\* the statement G_VALUE = fnz(1,2) after it evaluates the call and leaves
\* no error.
CallsIgnoreCase ==
    (/\ Parsed
     /\ Len(script.lines) = 2
     /\ script.lines[2] = Chars("G_VALUE = fnz(1,2)")
     /\ Chars("FNZ") \in DOMAIN state.functionBodies
     /\ CallClosure(state.functions[Chars("FNZ")], SampleValues(<<1, 2>>),
                    state.functions, ambient, 0).k = "val") =>
        OfLine(result.errors, 2) = <<>>

\* the smallest of a set of numbers, 0 for none
Least(S) == IF S = {} THEN 0 ELSE CHOOSE n \in S : \A m \in S : n <= m

\* the line of the first FOR of the script, and the line of its NEXT (0 when
\* there is none, or when the FOR is not one)
ForLine ==
    Least({n \in 1..Len(script.lines) :
              Command(CleanLine(script.lines[n])) = Chars("FOR")})
TheLoop == parseFor(CleanLine(script.lines[ForLine]))
NextLine ==
    IF ForLine = 0 \/ ~TheLoop.ok THEN 0
    ELSE Least({n \in (ForLine + 1)..Len(script.lines) :
                   toUpperCase(CleanLine(script.lines[n]))
                      = Chars("NEXT ") \o TheLoop.variable})

\* the place of line n in the traversal of a script whose loop is the lines
\* f to e: the lines of the loop have the place of its FOR
Block(n, f, e) == IF e > 0 /\ n >= f /\ n <= e THEN f ELSE n

\* the entries (commands or errors) of the lines between f and e
BodyPart(entries, f, e) == SelectSeq(entries, LAMBDA c : c.line > f /\ c.line < e)

\* the entries of the body of a loop are pass by pass, and line by line in a
\* pass: with m lines that leave entries, the k-th is of the line that
\* is number ((k - 1) mod m) + 1 among them
PassByPass(part) ==
    LET S == {part[k].line : k \in 1..Len(part)}
        m == Cardinality(S)
    IN  \A k \in 1..Len(part) :
            Cardinality({n \in S : n <= part[k].line}) = ((k - 1) % m) + 1

\* the points a loop draws at T,0,0 are at the values of T pass by pass
PointsByPass(part, for) ==
    LET m == Cardinality({part[k].line : k \in 1..Len(part)})
    IN  \A k \in 1..Len(part) :
            (/\ part[k].type = "PLOT_POINT3D"
             /\ CleanLine(script.lines[part[k].line]) = PointLine) =>
                part[k].position.x
                    = NumAdd(for.start, NumMul(Int2Num((k - 1) \div m), for.step))

\* entries are in the order of the traversal: by place, one entry at most
\* for a line outside the loop, and in the loop pass by pass, an entry of
\* the FOR itself the last
InOrder(entries, f, e) ==
    /\ \A k \in 1..(Len(entries) - 1) :
          /\ Block(entries[k].line, f, e) <= Block(entries[k + 1].line, f, e)
          /\ Block(entries[k].line, f, e) = Block(entries[k + 1].line, f, e)
                => /\ e > 0
                   /\ entries[k].line > f
                   /\ entries[k + 1].line >= f
    /\ e > 0 => PassByPass(BodyPart(entries, f, e))

\* C13: the commands returned are in the order of the traversal: those of
\* the statements outside a loop in the order of their lines, those of a
\* loop between the ones of the lines before its FOR and the ones of the
\* lines after its NEXT, pass by pass and in a pass line by line; and so
\* are the errors, the error of the loop limit after those of the passes.
EmissionOrder ==
    pc = "done" =>
        LET f == ForLine
            e == NextLine
        IN  /\ InOrder(result.commands, f, e)
            /\ InOrder(result.errors, f, e)
            /\ e > 0 => PointsByPass(BodyPart(result.commands, f, e), TheLoop)

\* a circle, three passes over a point, an error and a circle, then a circle
\* and an error
EmissionOrderWitness ==
    /\ pc = "done"
    /\ script.lines \in MixedScripts
    /\ Len(result.commands) = 8
    /\ Len(result.errors) = 4
    /\ [k \in 1..8 |-> result.commands[k].line] = <<1, 3, 5, 3, 5, 3, 5, 7>>
    /\ [k \in 1..4 |-> result.errors[k].line] = <<4, 4, 4, 8>>

\* the type of the command that the statement of a cleaned line leaves
TypeOf(line) ==
    IF Command(line) = Chars("PLOT3D") THEN "PLOT3D"
    ELSE IF Command(line) = Chars("CIRCLE3D") THEN "CIRCLE3D"
    ELSE IF Command(line) \in {Chars("TEXT"), Chars("LABEL")} THEN "TEXT"
    ELSE IF Command(line) = Chars("PLOT") THEN "PLOT_POINT3D"
    ELSE IF Command(line) # Chars("SET") THEN "none"
    ELSE IF SecondPart(line) = Chars("VIEW") THEN "SET_VIEW"
    ELSE IF SecondPart(line) = Chars("GRID") THEN "SET_GRID"
    ELSE IF SecondPart(line) = Chars("AXES") THEN "SET_AXES"
    ELSE "none"

\* the errors of a FOR: of its syntax, of its missing NEXT, of its limit
LoopErrors == {"Invalid FOR loop syntax", "Missing NEXT", "FOR loop exceeded iterations"}

\* the passes of a loop of positive step, the limit apart
PassesOf(for) ==
    Cardinality({k \in 0..(MAX_LOOP_ITERATIONS - 1) :
                    NumLe(NumAdd(for.start, NumMul(Int2Num(k), for.step)), for.end)})

\* the number of a command is that of a line of the script whose statement
\* leaves commands of its type
CommandsOfTheirLines ==
    \A k \in 1..Len(state.commands) :
        /\ state.commands[k].line \in 1..Len(script.lines)
        /\ TypeOf(CleanLine(script.lines[state.commands[k].line]))
              = state.commands[k].type

\* the number of an error is that of a line of the script that is not
\* skipped, the line of a FOR when it is an error of a loop, and then only
ErrorsOfTheirLines ==
    \A k \in 1..Len(state.errors) :
        /\ state.errors[k].line \in 1..Len(script.lines)
        /\ ~Skipped(CleanLine(script.lines[state.errors[k].line]))
        /\ state.errors[k].message.kind \in LoopErrors
              <=> Command(CleanLine(script.lines[state.errors[k].line])) = Chars("FOR")

\* a line outside a loop has left one entry at most, a line of the body of a
\* loop none or one in every pass
EntriesPerLine ==
    LET f == ForLine
        e == NextLine
        passes == PassesOf(TheLoop)
    IN  \A n \in 1..Len(script.lines) :
            LET entries == Len(OfLine(result.commands, n)) + Len(OfLine(result.errors, n))
            IN  IF e > 0 /\ n > f /\ n < e THEN entries \in {0, passes}
                ELSE entries <= 1

\* C14: every command and every error carries the number of the line of the
\* script that left it, counted from 1 over all lines: labels and lines
\* that are skipped do not change it, a line of the body of a loop gives
\* its own number in every pass, and the errors of a loop give the number
\* of the line of its FOR.
OriginalLineNumbers ==
    /\ ScriptLength(script) <= MAX_SCRIPT_SIZE
          => CommandsOfTheirLines /\ ErrorsOfTheirLines
    /\ Parsed => EntriesPerLine

\* a comment, a blank line, a loop from line 3 to line 5 over a point, a
\* blank line and a circle, all but the blank lines with labels: the points
\* are of line 4, the circle of line 7
OriginalLineNumbersWitness ==
    /\ pc = "done"
    /\ script.lines = LabelledLoop
    /\ [k \in 1..Len(result.commands) |-> result.commands[k].line] = <<4, 4, 4, 7>>
    /\ result.errors = <<>>

\* v is a number, and a finite one
FiniteNumber(v) == v.t = "num" /\ isFinite(v)

\* the numeric fields of a command, but for its colour
NumericFields(c) ==
    IF c.type \in {"PLOT_POINT3D", "TEXT"}
    THEN {c.position.x, c.position.y, c.position.z}
         \cup (IF c.type = "PLOT_POINT3D" THEN {c.size} ELSE {})
    ELSE IF c.type = "CIRCLE3D"
    THEN {c.center.x, c.center.y, c.center.z, c.radius}
    ELSE IF c.type = "SET_VIEW" THEN {c.azimuth, c.elevation}
    ELSE {}

\* C15: every numeric field of every command is a finite number: no NaN, no
\* infinity and no value that is not a number is the coordinate, the radius,
\* the size or the angle of a command.
FiniteFields ==
    \A k \in 1..Len(state.commands) :
        \A v \in NumericFields(state.commands[k]) : FiniteNumber(v)

\* the three numbers written after COLOR in a line
WrittenColour(line) ==
    LET after == From(line, IndexOf(toUpperCase(line), Chars("COLOR")) + 5)
        texts == Split(IF IndexOf(after, Chars(" SIZE")) > 0
                       THEN SubSeq(after, 1, IndexOf(after, Chars(" SIZE")) - 1)
                       ELSE after, ",")
    IN  [k \in 1..3 |-> parseFloat(trim(texts[k]))]

\* the colour of every CIRCLE3D and PLOT_POINT3D command is the written one
\* over 255
ColourIsScaled ==
    \A k \in 1..Len(state.commands) :
        state.commands[k].type \in {"CIRCLE3D", "PLOT_POINT3D"} =>
            LET c == state.commands[k]
                w == WrittenColour(CleanLine(script.lines[c.line]))
            IN  c.color = [r |-> NumDiv(w[1], Int2Num(255)),
                           g |-> NumDiv(w[2], Int2Num(255)),
                           b |-> NumDiv(w[3], Int2Num(255))]

\* C16: every colour channel of a CIRCLE3D or PLOT_POINT3D command is the
\* number written in the script divided by 255, and is between 0 and 1.
ColourWithinUnit ==
    /\ ColourIsScaled
    /\ \A k \in 1..Len(state.commands) :
          state.commands[k].type \in {"CIRCLE3D", "PLOT_POINT3D"} =>
              \A ch \in {state.commands[k].color.r, state.commands[k].color.g,
                          state.commands[k].color.b} :
                  NumLe(Int2Num(0), ch) /\ NumLe(ch, Int2Num(1))

\* line is a PLOT3D, CIRCLE3D, TEXT, LABEL, PLOT POINT3D or SET VIEW, SET
\* GRID, SET AXES statement
Drawing(line) ==
    /\ TypeOf(line) # "none"
    /\ Command(line) = Chars("PLOT") => SecondPart(line) = Chars("POINT3D")

\* the entries, commands and errors, that line n has left
EntriesOf(n) == Len(OfLine(result.commands, n)) + Len(OfLine(result.errors, n))

\* every such statement outside a loop has left one command or one error
OneEntryOutsideLoops ==
    Parsed =>
        \A n \in 1..Len(script.lines) :
            (/\ Drawing(CleanLine(script.lines[n]))
             /\ ~(NextLine > 0 /\ n > ForLine /\ n < NextLine)) =>
                EntriesOf(n) = 1

\* C17: every time one of these statements is taken up it leaves one
\* command and no error or one error and no command, never both, more or
\* nothing: one entry for a line outside a loop, one for every pass for a
\* line of the body of a loop.
OneEntryPerDispatch ==
    /\ OneEntryOutsideLoops
    /\ Parsed =>
          \A n \in 1..Len(script.lines) :
              (/\ Drawing(CleanLine(script.lines[n]))
               /\ NextLine > 0 /\ n > ForLine /\ n < NextLine) =>
                  EntriesOf(n) = PassesOf(TheLoop)

\* the list s is the beginning of the list t
IsPrefix(s, t) == Len(s) <= Len(t) /\ SubSeq(t, 1, Len(s)) = s

\* a step of a parse leaves the commands and the errors where they were and
\* at most adds to their ends, and leaves every name of the registry
\* registered; the step that returns gives the lists as they are
GrowingStep ==
    pc \in {"main", "loop"} =>
        /\ IsPrefix(state.commands, state'.commands)
        /\ IsPrefix(state.errors, state'.errors)
        /\ DOMAIN state.functions \subseteq DOMAIN state'.functions
        /\ DOMAIN state.functionBodies \subseteq DOMAIN state'.functionBodies
        /\ pc' = "done" =>
              /\ result'.commands = state.commands
              /\ result'.errors = state.errors

\* C18: in a parse the list of commands and the list of errors only grow at
\* their ends and the registry only gains or replaces entries: an error
\* that is recorded removes, moves or changes no command, and the commands
\* left before and after an error are all returned.
OnlyGrows == [][GrowingStep]_vars

\* a command of line 1 is returned with the error that line 2 left after it
OnlyGrowsWitness ==
    /\ Parsed
    /\ Len(result.commands) = 1
    /\ Len(result.errors) = 1
    /\ result.commands[1].line = 1
    /\ result.errors[1].line = 2

\* C19: a call of parseG3D returns for a script what every call before it
\* returned for the same script, whatever was parsed in between: the same
\* commands in the same order and the same errors in the same order.
SameTextSameResult ==
    pc = "done" =>
        \A k \in 1..Len(calls) : calls[k].script = script => calls[k].result = result

\* what a call registers, emits and records is gone with its ParserState:
\* when the main loop begins there is no definition, no command and no error
FreshParserState ==
    (pc = "main" /\ i = 0) =>
        /\ state.functions = InitialFunctions
        /\ state.functionBodies = <<>>
        /\ state.commands = <<>>
        /\ state.errors = <<>>

\* the commands that the statement of line n leaves when it is written at
\* top level, before anything else
AtTopLevel(n) == TopLevel(CleanLine(script.lines[n]), n, NewParserState).commands

\* C20: a line of the body of a loop goes through the dispatcher of the
\* top-level lines in every pass: a statement that leaves a command at top
\* level, SET VIEW, SET GRID and SET AXES among them, leaves that command
\* once for every pass of the loop.
SameDispatcherInLoops ==
    Parsed =>
        \A n \in 1..Len(script.lines) :
            (/\ NextLine > 0 /\ n > ForLine /\ n < NextLine
             /\ AtTopLevel(n) # <<>>) =>
                /\ Len(OfLine(result.commands, n)) = PassesOf(TheLoop)
                /\ \A k \in 1..Len(result.commands) :
                      result.commands[k].line = n =>
                          result.commands[k].type = AtTopLevel(n)[1].type

\* (the same of the statements that processLine knows: it holds)
SameDispatcherButSet ==
    Parsed =>
        \A n \in 1..Len(script.lines) :
            (/\ NextLine > 0 /\ n > ForLine /\ n < NextLine
             /\ AtTopLevel(n) # <<>>
             /\ Command(CleanLine(script.lines[n])) # Chars("SET")) =>
                /\ Len(OfLine(result.commands, n)) = PassesOf(TheLoop)
                /\ \A k \in 1..Len(result.commands) :
                      result.commands[k].line = n =>
                          result.commands[k].type = AtTopLevel(n)[1].type

\* the loop of the script is one with its NEXT and a positive step
PositiveLoop ==
    /\ NextLine > 0
    /\ NumLe(Int2Num(0), TheLoop.step) /\ TheLoop.step # Int2Num(0)

\* the value of the loop variable in pass k of the loop for
ValueOfPass(for, k) == NumAdd(for.start, NumMul(Int2Num(k - 1), for.step))

\* the values of the loop for that are at most its end are at most
\* MAX_LOOP_ITERATIONS: the one after that many is above the end
WithinLimit(for) == ~NumLe(ValueOfPass(for, MAX_LOOP_ITERATIONS + 1), for.end)

StoppedAtLimit ==
    \A k \in 1..Len(state.errors) :
        state.errors[k].message.kind = "FOR loop exceeded iterations" =>
            state.errors[k].message.val
                = NumAdd(state.errors[k].message.start,
                         NumMul(Int2Num(MAX_LOOP_ITERATIONS),
                                state.errors[k].message.step))

\* how far parseG3D has come: the lines the main loop has left behind, each
\* counted for more than the tests of a loop, and the tests of the loop in
\* progress
Progress ==
    IF pc = "start" THEN 0
    ELSE IF pc = "done" THEN 1 + (Len(Lines(script)) + 1) * (MAX_LOOP_ITERATIONS + 3)
    ELSE 1 + i * (MAX_LOOP_ITERATIONS + 3)
           + (IF pc = "loop" THEN 1 + loop.iterations ELSE 0)

\* a step of parseG3D brings it further
Advances == pc # "done" => Progress' > Progress

\* and it is never further than at its end
WithinTheEnd == Progress <= 1 + (Len(Lines(script)) + 1) * (MAX_LOOP_ITERATIONS + 3)

MorphValue(cmd, a) ==
    securelyEvaluate(cmd.funcBody.body,
                     Merge(state.functions,
                           (Chars("n") :> Int2Num(a[3])) @@ (Chars("N") :> Int2Num(a[3]))
                           @@ Scope(cmd.funcBody, <<Int2Num(a[1]), Int2Num(a[2])>>)),
                     state.functions, ambient, 0)

\* C23: the function of a PLOT3D command whose body names the morph
\* parameter n, in either case, returns the value of the body with n at
\* the value the caller passes and the declared arguments at x and y.
MorphParameterBound ==
    (invoked.k = "call" /\ result.commands[invoked.cmd].usesN) =>
        SameOutcome(invoked.out, MorphValue(result.commands[invoked.cmd], invoked.args))

\* (the same of the functions of X and Y that write the parameter N)
MorphParameterBoundUpper ==
    (/\ invoked.k = "call" /\ result.commands[invoked.cmd].usesN
     /\ result.commands[invoked.cmd].funcBody.args = <<Chars("X"), Chars("Y")>>
     /\ ~includes(result.commands[invoked.cmd].funcBody.body, <<"n">>)) =>
        /\ invoked.out.k = "val"
        /\ SameOutcome(invoked.out,
                       MorphValue(result.commands[invoked.cmd], invoked.args))

\* the word w stands in expr as a word of its own, in any letter case
HasWord(expr, w) ==
    \E p \in 1..Len(expr) :
        /\ At(expr, p, w, TRUE)
        /\ (p = 1 \/ expr[p - 1] \notin WordSet)
        /\ (p + Len(w) > Len(expr) \/ expr[p + Len(w)] \notin WordSet)

\* expr holds none of the domain operators: no ^, no <>, no = but that of
\* <= and >=, and neither AND nor OR as a word
NoDomainOperator(expr) ==
    /\ ~includes(expr, <<"^">>) /\ ~includes(expr, <<"<", ">">>)
    /\ \A p \in 1..Len(expr) :
          expr[p] = "=" => (p > 1 /\ expr[p - 1] \in {"<", ">"})
    /\ ~HasWord(expr, Chars("AND")) /\ ~HasWord(expr, Chars("OR"))

\* C24: jsifyExpression rewrites the domain operators only: an expression
\* without them, whatever names of the letters OR and AND and whatever
\* comparisons <= and >= it holds, is handed to the evaluator as written.
OnlyOperatorsRewritten ==
    \A expr \in state.evaluated :
        NoDomainOperator(expr) => jsifyExpression(expr) = expr

\* (the operators themselves are rewritten: ^ to **, <> to !=, = to ==, AND, OR)
OperatorsRewritten ==
    /\ Chars("G_VALUE = 2^3 <> 8 OR 1 = 1") \in {script.lines[1]} =>
          \A expr \in state.evaluated :
              jsifyExpression(expr) = Chars("2**3 !== 8 || 1 == 1")
    /\ Chars("G_VALUE = 1 and 0") \in {script.lines[1]} =>
          \A expr \in state.evaluated : jsifyExpression(expr) = Chars("1 && 0")

\* line n of the script is a PLOT3D statement of the form the parser accepts
IsPlot3D(n) ==
    /\ Command(CleanLine(script.lines[n])) = Chars("PLOT3D")
    /\ MatchRegex(CleanLine(script.lines[n]), plot3DRegex).ok

\* the name line n plots, in upper case
PlottedName(n) ==
    toUpperCase(MatchRegex(CleanLine(script.lines[n]), plot3DRegex).groups[1])

\* a line before line n is a DEF of the name F, in any letter case
DefinedBefore(n, F) ==
    \E m \in 1..(n - 1) :
        /\ IsDefinition(CleanLine(script.lines[m]))
        /\ toUpperCase(MatchRegex(CleanLine(script.lines[m]),
                                  simpleDefRegex).groups[1]) = F

\* line n is in the body of the loop of the script
InTheLoop(n) == ForLine # 0 /\ NextLine # 0 /\ ForLine < n /\ n < NextLine

\* C25: a PLOT3D outside a loop leaves its one command and no error if a
\* line before it defines the name it plots; if none does, it leaves no
\* command and the one error of the undefined function, the lines after it
\* are taken up all the same, and a DEF of the name further down does not
\* change that.
PlotNeedsEarlierDefinition ==
    Parsed =>
        \A n \in 1..Len(script.lines) :
            (IsPlot3D(n) /\ ~InTheLoop(n)) =>
                /\ (n + 1)..Len(script.lines) \subseteq visited
                /\ IF DefinedBefore(n, PlottedName(n))
                   THEN /\ Len(OfLine(result.commands, n)) = 1
                        /\ OfLine(result.commands, n)[1].type = "PLOT3D"
                        /\ OfLine(result.errors, n) = <<>>
                   ELSE /\ OfLine(result.commands, n) = <<>>
                        /\ Len(OfLine(result.errors, n)) = 1
                        /\ OfLine(result.errors, n)[1].message
                              = [kind |-> "Function not defined for PLOT3D",
                                 name |-> PlottedName(n)]

\* PLOT3D FNZ(X,Y) with the DEF of FNZ on the line after it: the one error of
\* line 1, no command, and FNZ registered by line 2
PlotNeedsEarlierDefinitionWitness ==
    /\ Parsed
    /\ Len(script.lines) = 2
    /\ IsPlot3D(1)
    /\ IsDefinition(CleanLine(script.lines[2]))
    /\ PlottedName(1) \in DOMAIN state.functionBodies
    /\ result.commands = <<>>
    /\ Len(result.errors) = 1
    /\ result.errors[1].line = 1
    /\ result.errors[1].message.kind = "Function not defined for PLOT3D"
    /\ visited = {1, 2}

\* the cache of the worker, if the storage holds it
TheCache ==
    SelectSeq(worker.caches, LAMBDA c : c.name = CACHE_NAME)

\* url is of Three.js on one of the CDNs
OnThreeCdn(url) ==
    \/ includes(url, Chars("aistudiocdn.com/three"))
    \/ includes(url, Chars("unpkg.com/three"))
    \/ includes(url, Chars("cdn.skypack.dev/three"))

\* C26: whatever the pages have requested, the cache of the worker holds no
\* response of a request for Three.js on a CDN.
NoThreeInTheCache ==
    worker.phase # "none" =>
        \A k \in 1..Len(TheCache) :
            \A url \in DOMAIN TheCache[k].entries : ~OnThreeCdn(url)

\* what install puts into the cache is not of a Three.js CDN
NoThreeInstalled ==
    worker.phase = "installed" =>
        \A k \in 1..Len(TheCache) :
            \A url \in DOMAIN TheCache[k].entries : ~OnThreeCdn(url)

\* C27: once activate is through, the storage holds the cache CACHE_NAME
\* and no other, activate has left in it what install put there, and no
\* request is served with a response that a cache of another name held.
OldCachesGone ==
    worker.phase = "activated" =>
        /\ Len(worker.caches) = 1
        /\ worker.caches[1].name = CACHE_NAME
        /\ worker.served.via # "old"
        /\ \A url \in DOMAIN worker.caches[1].entries :
               worker.caches[1].entries[url].via # "old"

\* the caches of the former version and of another script were deleted, the
\* cache of the worker holds the page, and a request for Three.js on the CDN
\* the former cache held was answered by the network
OldCachesGoneWitness ==
    /\ worker.phase = "activated"
    /\ worker.deleted = {OldCache.name, OtherCache.name}
    /\ RequestUrl(Chars("/index.html")) \in DOMAIN worker.caches[1].entries
    /\ worker.request # None
    /\ worker.request.url \in DOMAIN OldCache.entries
    /\ worker.served = Response(404, "network")

\* the commands of type type, in the order of the scene
OfType(commands, type) == SelectSeq(commands, LAMBDA c : c.type = type)

\* the last command of type type switches on (FALSE when there is none)
LastIsOn(commands, type) ==
    /\ OfType(commands, type) # <<>>
    /\ OfType(commands, type)[Len(OfType(commands, type))].visible

\* C28: the grid is shown iff the last SET GRID of the scene is ON, and the
\* axes iff the last SET AXES is ON.
LastToggleDecides ==
    (Parsed /\ result.errors = <<>>) =>
        /\ showGrid(result) = LastIsOn(result.commands, "SET_GRID")
        /\ showAxes(result) = LastIsOn(result.commands, "SET_AXES")

\* a helper is shown iff some SET statement of the scene switches it on
AnyToggleDecides ==
    (Parsed /\ result.errors = <<>>) =>
        /\ showGrid(result)
              = \E k \in 1..Len(OfType(result.commands, "SET_GRID")) :
                   OfType(result.commands, "SET_GRID")[k].visible
        /\ showAxes(result)
              = \E k \in 1..Len(OfType(result.commands, "SET_AXES")) :
                   OfType(result.commands, "SET_AXES")[k].visible

\* what the function of the command cmd returns (or throws) for the values a
ValueAt(cmd, a) ==
    LET out == Plot3DFunc(cmd, Int2Num(a[1]), Int2Num(a[2]), Int2Num(a[3]),
                          state.functions)
    IN  IF out.k = "throw" THEN [k |-> "throw", m |-> out.m]
        ELSE [k |-> "val", v |-> out.v]

\* the PLOT3D commands of the result
Plots == OfType(result.commands, "PLOT3D")

\* C29: two PLOT3D commands with the same funcHash return the same value for
\* every x, y and n.
SameHashSameFunction ==
    Parsed =>
        \A j, k \in 1..Len(Plots) :
            Plots[j].funcHash = Plots[k].funcHash =>
                \A a \in InvokeArgs : ValueAt(Plots[j], a) = ValueAt(Plots[k], a)

\* two PLOT3D commands with the same funcHash have the same body text, and
\* with the same arguments as well they return the same values
SameHashSameBody ==
    Parsed =>
        \A j, k \in 1..Len(Plots) :
            Plots[j].funcHash = Plots[k].funcHash =>
                /\ Plots[j].funcBody.body = Plots[k].funcBody.body
                /\ Plots[j].funcBody.args = Plots[k].funcBody.args =>
                       \A a \in InvokeArgs :
                           ValueAt(Plots[j], a) = ValueAt(Plots[k], a)

\* the App is at rest after a Parse & Render
AfterRender == app.mounted /\ ~app.running /\ result # None

\* C30: after a Parse & Render, whatever was edited since, isRunning tells
\* that the parse returned no errors; a list of errors on display comes with
\* isRunning false, no canvas and a scene without commands; and after a
\* parse without errors no list of errors is on display and the scene is the
\* one the parse returned.
AppFollowsLastParse ==
    AfterRender =>
        /\ app.isRunning = (result.errors = <<>>)
        /\ (~app.errors.null) =>
              /\ app.errors.list = result.errors
              /\ app.errors.list # <<>>
              /\ ~app.isRunning
              /\ ~CanvasShown(app)
              /\ app.parsedScene.commands = <<>>
        /\ (result.errors = <<>>) =>
              /\ app.errors = Null
              /\ app.parsedScene = result
              /\ CanvasShown(app)
        /\ (result.errors # <<>>) => app.errors.list = result.errors

\* nothing of the App changes while handleParseAndRun runs the parser, and
\* an edit changes the script alone
AppSteps ==
    /\ (app.mounted /\ app.running /\ pc # "done") =>
           app' = app
    /\ (app.mounted /\ ~app.running /\ app'.script # app.script) =>
           app' = [app EXCEPT !.script = app'.script]

AppShowsLastParse == []AppFollowsLastParse /\ [][AppSteps]_vars

\* the parse of a circle and a statement in error returned the circle and
\* the error: the error is on display, nothing runs and the scene is empty,
\* and the script was edited since
AppShowsLastParseWitness ==
    /\ AfterRender
    /\ Len(result.commands) = 1
    /\ Len(result.errors) = 1
    /\ app.errors.list = result.errors
    /\ ~app.isRunning
    /\ app.parsedScene = [commands |-> <<>>]
    /\ app.script # script.lines

\* after a parse with errors, a parse without errors: the list is cleared
ErrorsClearedWitness ==
    /\ AfterRender
    /\ result.errors = <<>>
    /\ app.errors = Null
    /\ app.isRunning
    /\ Len(app.parsedScene.commands) = 1

====
